---- MODULE Spec2Model ----
(***************************************************************************)
(* The agent orchestration of backend/sql_agent.py: the LangGraph state    *)
(* graph built by create_nlp_to_sql_graph (planner, sql_generation,        *)
(* evaluation, error) and its driver run_nlp_to_sql.                       *)
(*                                                                         *)
(* How the graph runtime treats the state dictionary:                      *)
(*  - state below is   the run's state as the graph holds it (one value    *)
(*    per key of AgentState).  A node function is handed a dictionary      *)
(*    freshly assembled from those values; only the dictionary the node    *)
(*    RETURNS is written back, key by key.  sql_generation_node,           *)
(*    evaluation_node and error_node return the whole dictionary they      *)
(*    mutated; planner_node returns a literal with a few keys, so what it  *)
(*    assigned to other keys of its argument stays in its own copy.        *)
(*  - a conditional-edge function is handed such a dictionary too, and     *)
(*    only the route it returns is used.                                   *)
(* node_view and edge_view keep the dictionary the last node function and  *)
(* the last edge function held when they returned, so that what the code   *)
(* assigned there can be told apart from what the run's state holds.       *)
(*                                                                         *)
(* Texts of model responses: a scope answer and a relevance answer are     *)
(* sequences of characters; a generated SQL text is a sequence of tokens.  *)
(* An Optional[str] is <<>> (None) or a one-element sequence.              *)
(***************************************************************************)
EXTENDS Integers, Sequences, FiniteSets, TLC

VARIABLES
    state,      \* the AgentState of the run, as held by the graph
    node,       \* the node that runs next: planner, sql_generation, evaluation, error, END;
                \* returned: run_nlp_to_sql has returned; raised: an exception has left it
    node_view,  \* the dictionary the last node function held at its return
    edge_view,  \* the dictionary the last conditional-edge function held at its return
    output,     \* None, or the dictionary run_nlp_to_sql returned
    received,   \* the model responses the last step consumed
    audit,      \* history: what the run has done so far (not read by the program)
    client,     \* llm_client.py: the LLMClient instance and its last operation
    callers,    \* llm_client.py: threads inside LLMClient.__new__, statement by statement
    pair,       \* two calls of run_nlp_to_sql in one process: the dictionaries
                \* allocated, and for each call the one it works on
    SQLPARSE_AVAILABLE,  \* sql_agent.py, lines 32-37: whether import sqlparse succeeded
    probe       \* one call of a function of sql_agent.py on its own: its argument and result

graph_vars == <<state, node, node_view, edge_view, output, received, audit>>

vars == <<graph_vars, client, callers, pair, SQLPARSE_AVAILABLE, probe>>

(***************************************************************************)
(* Bounds of the model and constants of the program                        *)
(***************************************************************************)
MaxToolCalls == 2        \* longest list of tool invocations an ordering response carries
MaxAudit == 6            \* the largest number a counter of audit holds
NumThreads == 2          \* threads that call get_llm_client() at the same time
MaxLines == 3            \* most lines of a text handed to validate_sql_syntax on its own

NumCategories == 3       \* for i in range(3)
SyntaxRetryCap == 2      \* should_retry_sql: attempts < 2
RegenerationCap == 4     \* should_regenerate_sql: attempts >= 4
ThresholdNum == 8        \* relevance_score >= 0.8, as the fraction 8/10
ThresholdDen == 10
DefaultScoreNum == 5     \* relevance_score = 0.5, as the fraction 5/10
DefaultScoreDen == 10

None == <<>>
Some(x) == <<x>>

Categories == 0 .. (NumCategories - 1)

\* CATEGORY_MAP[i]["name"]
CategoryName(i) ==
    CASE i = 0 -> "Customer & Sales"
      [] i = 1 -> "Inventory & Products"
      [] OTHER -> "Operations & Analytics"

\* The names a tool invocation can carry: the three declared tools and one
\* name that is not declared.
ToolNames == {"get_customer_sales_tables", "get_inventory_products_tables",
              "get_operations_analytics_tables", "get_weather"}

KnownTool(name) ==
    name \in {"get_customer_sales_tables", "get_inventory_products_tables",
              "get_operations_analytics_tables"}

\* tool_name_to_index
tool_name_to_index(name) ==
    CASE name = "get_customer_sales_tables" -> 0
      [] name = "get_inventory_products_tables" -> 1
      [] OTHER -> 2

(***************************************************************************)
(* Text helpers                                                            *)
(***************************************************************************)
Range(seq) == {seq[i] : i \in 1 .. Len(seq)}

SeqsUpTo(S, n) == UNION {[1 .. k -> S] : k \in 0 .. n}

IsDigit(c) == c \in {"0", "1", "2", "3", "4", "5", "6", "7", "8", "9"}

DigitValue(c) ==
    CASE c = "0" -> 0 [] c = "1" -> 1 [] c = "2" -> 2 [] c = "3" -> 3
      [] c = "4" -> 4 [] c = "5" -> 5 [] c = "6" -> 6 [] c = "7" -> 7
      [] c = "8" -> 8 [] OTHER -> 9

IsSpace(c) == c \in {" ", "\n", "\t"}

\* str.upper on one character
UpperChar(c) ==
    CASE c = "n" -> "N" [] c = "o" -> "O" [] c = "y" -> "Y" [] c = "e" -> "E"
      [] c = "s" -> "S" [] c = "k" -> "K" [] c = "w" -> "W" [] OTHER -> c

Upper(t) == [i \in 1 .. Len(t) |-> UpperChar(t[i])]

RECURSIVE LStrip(_)
LStrip(t) == IF t # <<>> /\ IsSpace(Head(t)) THEN LStrip(Tail(t)) ELSE t

RECURSIVE RStrip(_)
RStrip(t) ==
    IF t # <<>> /\ IsSpace(t[Len(t)]) THEN RStrip(SubSeq(t, 1, Len(t) - 1)) ELSE t

\* str.strip
Strip(t) == RStrip(LStrip(t))

\* sub in t
Contains(sub, t) ==
    \E i \in 1 .. (Len(t) - Len(sub) + 1) : SubSeq(t, i, i + Len(sub) - 1) = sub

(***************************************************************************)
(* The model responses a run can receive.  Every call goes through         *)
(* LLMClient, which either returns or raises: failed = TRUE is the raise.  *)
(* What LLMClient does with its two backends is modelled further down,     *)
(* under ClientSpec.                                                       *)
(***************************************************************************)
\* generate_with_tools: the names of response["tool_calls"], in order
OrderingResponses ==
    [failed : {FALSE}, tool_calls : SeqsUpTo(ToolNames, MaxToolCalls)]
        \cup {[failed |-> TRUE, tool_calls |-> <<>>]}

\* generate(out_of_scope_prompt): the answer text
ScopeTexts ==
    { <<"y", "e", "s">>, <<"Y", "E", "S", "\n">>, <<"n", "o">>, <<" ", "N", "o", ".">>,
      <<"k", "n", "o", "w", "n">> }

ScopeResponses ==
    [failed : {FALSE}, text : ScopeTexts] \cup {[failed |-> TRUE, text |-> <<>>]}

\* generate(relevance_prompt): the answer text
ScoreTexts ==
    { <<"0", ".", "9">>, <<"0", ".", "8">>, <<"0", ".", "7", "9">>, <<".", "8", "5">>,
      <<"1", ".", "0">>, <<"1">>, <<"0">>, <<"8", "5", "%">>, <<"l", "o", "w">> }

ScoreResponses ==
    [failed : {FALSE}, text : ScoreTexts] \cup {[failed |-> TRUE, text |-> <<>>]}

PlannerResponses ==
    [ordering : OrderingResponses, scope : ScopeResponses, score : ScoreResponses]

(***************************************************************************)
(* planner_node: relevance score                                           *)
(* re.search(r'0?\.\d+|1\.0|0|1', score_response), then float()            *)
(***************************************************************************)
RECURSIVE DigitsEnd(_, _)
\* the last index of the run of digits of t that starts at j
DigitsEnd(t, j) ==
    IF j + 1 <= Len(t) /\ IsDigit(t[j + 1]) THEN DigitsEnd(t, j + 1) ELSE j

RECURSIVE DigitsValue(_, _, _)
\* the number written by the digits t[j..k]
DigitsValue(t, j, k) ==
    IF k < j THEN 0 ELSE 10 * DigitsValue(t, j, k - 1) + DigitValue(t[k])

RECURSIVE Pow10(_)
Pow10(n) == IF n = 0 THEN 1 ELSE 10 * Pow10(n - 1)

NoMatch == [ok |-> FALSE, num |-> 0, den |-> 1]

\* the fraction .d+ whose digits start at j
Fraction(t, j) ==
    LET k == DigitsEnd(t, j)
    IN  [ok |-> TRUE, num |-> DigitsValue(t, j, k), den |-> Pow10(k - j + 1)]

\* the alternatives of the pattern tried at position i, in their order
MatchAt(t, i) ==
    LET has(j, c) == j <= Len(t) /\ t[j] = c
        digit(j) == j <= Len(t) /\ IsDigit(t[j])
    IN  IF has(i, "0") /\ has(i + 1, ".") /\ digit(i + 2) THEN Fraction(t, i + 2)
        ELSE IF has(i, ".") /\ digit(i + 1) THEN Fraction(t, i + 1)
        ELSE IF has(i, "1") /\ has(i + 1, ".") /\ has(i + 2, "0")
             THEN [ok |-> TRUE, num |-> 1, den |-> 1]
        ELSE IF has(i, "0") THEN [ok |-> TRUE, num |-> 0, den |-> 1]
        ELSE IF has(i, "1") THEN [ok |-> TRUE, num |-> 1, den |-> 1]
        ELSE NoMatch

RECURSIVE SearchFrom(_, _)
\* re.search: the match at the leftmost position that has one
SearchFrom(t, i) ==
    IF i > Len(t) THEN NoMatch
    ELSE IF MatchAt(t, i).ok THEN MatchAt(t, i) ELSE SearchFrom(t, i + 1)

DefaultScore == [num |-> DefaultScoreNum, den |-> DefaultScoreDen]

\* relevance_score, as the fraction num/den
relevance_score(r) ==
    IF r.failed THEN DefaultScore
    ELSE LET m == SearchFrom(r.text, 1)
         IN  IF m.ok THEN [num |-> m.num, den |-> m.den] ELSE DefaultScore

\* the comparison written with > in place of >=
is_satisfactory_strict(score) == score.num * ThresholdDen > ThresholdNum * score.den

\* is_satisfactory = relevance_score >= 0.8
is_satisfactory(score) == score.num * ThresholdDen >= ThresholdNum * score.den

(***************************************************************************)
(* planner_node: the order of the categories                               *)
(***************************************************************************)
RECURSIVE ExtractOrderNoDedup(_, _)
\* the loop without its test idx not in tool_order
ExtractOrderNoDedup(calls, acc) ==
    IF calls = <<>> THEN acc
    ELSE LET name == Head(calls)
             idx == tool_name_to_index(name)
         IN  IF KnownTool(name)
             THEN ExtractOrderNoDedup(Tail(calls), Append(acc, idx))
             ELSE ExtractOrderNoDedup(Tail(calls), acc)

RECURSIVE ExtractOrder(_, _)
\* the loop over response["tool_calls"]: known names, first occurrence only
ExtractOrder(calls, acc) ==
    IF calls = <<>> THEN acc
    ELSE LET name == Head(calls)
             idx == tool_name_to_index(name)
         IN  IF KnownTool(name) /\ idx \notin Range(acc)
             THEN ExtractOrder(Tail(calls), Append(acc, idx))
             ELSE ExtractOrder(Tail(calls), acc)

RECURSIVE AddRemaining(_, _)
\* for i in range(3): if i not in tool_order: tool_order.append(i)
AddRemaining(order, i) ==
    IF i >= NumCategories THEN order
    ELSE AddRemaining(IF i \in Range(order) THEN order ELSE Append(order, i), i + 1)

DefaultOrder == <<0, 1, 2>>

\* the test written as an equality with NO
AnswersNo_exact(text) == Upper(Strip(text)) = <<"N", "O">>

\* "NO" in llm_client.generate(...).strip().upper()
AnswersNo(text) == Contains(<<"N", "O">>, Upper(Strip(text)))

(***************************************************************************)
(* The run's state                                                         *)
(***************************************************************************)
\* evaluation_result = {}
NoEvaluation ==
    [present |-> FALSE, passed |-> FALSE, feedback |-> "", feedback_is_str |-> TRUE]

\* run_nlp_to_sql: initial_state
initial_state ==
    [ selected_tool_order |-> <<>>,
      current_tool_index |-> 0,
      tools_attempted |-> <<>>,
      selected_tables |-> None,
      selected_category |-> None,
      tables_satisfactory |-> FALSE,
      planner_reasoning |-> "",
      generated_sql |-> None,
      sql_generation_attempts |-> 0,
      sql_generation_error |-> None,
      sql_valid |-> FALSE,
      sql_history |-> <<>>,
      evaluation_result |-> NoEvaluation,
      needs_regeneration |-> FALSE,
      final_sql |-> None,
      error_message |-> None,
      workflow_complete |-> FALSE,
      tool_calls_made |-> None ]       \* {}: None; {"planner": names}: Some(names)

\* The graph writes the keys of the dictionary a node returned over the
\* run's state and leaves the other keys as they were.
ApplyUpdate(s, update) ==
    [k \in DOMAIN s |-> IF k \in DOMAIN update THEN update[k] ELSE s[k]]

\* The values of the dictionary handed to a node are the objects the run's
\* state holds: what the node stores INSIDE one of them (line 513 stores
\* under the key planner of the tool_calls_made dictionary) is stored in the
\* run's state, whatever the node returns.
StoredInPlace(s, local) == [s EXCEPT !.tool_calls_made = local.tool_calls_made]

OutOfScopeMessage == "The query is outside our Retail database scope."
NoTablesMessage == "I couldn't find any satisfactory tables to answer your query."

(***************************************************************************)
(* planner_node(state): [update |-> the dictionary it returns,             *)
(*                       local  |-> its argument as it left it,            *)
(*                       calls  |-> the calls of llm_client it made]       *)
(***************************************************************************)
\* lines 431-522: the ordering step, on the node's own dictionary.
\* rejected: the out-of-scope return was taken.
\* calls: the calls of llm_client the step made.
planner_ordering(s, r) ==
    IF s.selected_tool_order # <<>>
    THEN [rejected |-> FALSE, local |-> s, calls |-> {}]
    ELSE LET tool_order == ExtractOrder(r.ordering.tool_calls, <<>>)
             fallback == [s EXCEPT !.selected_tool_order = DefaultOrder,
                                   !.current_tool_index = 0,
                                   !.tools_attempted = <<>>]
         IN  IF r.ordering.failed
             THEN [rejected |-> FALSE, local |-> fallback, calls |-> {"ordering"}]
             ELSE IF tool_order = <<>>
             THEN IF r.scope.failed
                  THEN [rejected |-> FALSE, local |-> fallback,
                        calls |-> {"ordering", "scope"}]
                  ELSE IF AnswersNo(r.scope.text)
                  THEN [rejected |-> TRUE, local |-> s, calls |-> {"ordering", "scope"}]
                  ELSE [rejected |-> FALSE,
                        local |-> [s EXCEPT !.selected_tool_order = <<0, 1, 2>>,
                                            !.current_tool_index = 0,
                                            !.tools_attempted = <<>>,
                                            !.tool_calls_made =
                                                Some(r.ordering.tool_calls)],
                        calls |-> {"ordering", "scope"}]
             ELSE [rejected |-> FALSE,
                   local |-> [s EXCEPT !.selected_tool_order = AddRemaining(tool_order, 0),
                                       !.current_tool_index = 0,
                                       !.tools_attempted = <<>>,
                                       !.tool_calls_made = Some(r.ordering.tool_calls)],
                   calls |-> {"ordering"}]

\* planner_node recording the category before scoring it and again in what
\* it returns
planner_node_records_twice(s, r) ==
    LET o == planner_ordering(s, r)
        local == o.local
        current_idx == local.current_tool_index
        tool_order == local.selected_tool_order
    IN  IF o.rejected
        THEN [update |-> [error_message |-> Some(OutOfScopeMessage),
                          planner_reasoning |-> "Out-of-scope query filtered.",
                          workflow_complete |-> TRUE],
              local |-> local, calls |-> o.calls]
        ELSE IF current_idx >= Len(tool_order)
        THEN [update |-> [error_message |-> Some(NoTablesMessage),
                          planner_reasoning |->
                              "All available table categories were checked but none were relevant.",
                          workflow_complete |-> TRUE],
              local |-> local, calls |-> o.calls]
        ELSE LET tool_idx == tool_order[current_idx + 1]
                 tools_attempted == Append(local.tools_attempted, tool_idx)
                 satisfactory == is_satisfactory(relevance_score(r.score))
             IN  [update |-> [selected_tables |-> Some(tool_idx),
                              selected_category |-> Some(CategoryName(tool_idx)),
                              tables_satisfactory |-> satisfactory,
                              planner_reasoning |-> "Analyzed " \o CategoryName(tool_idx),
                              tools_attempted |-> Append(tools_attempted, tool_idx),
                              current_tool_index |->
                                  current_idx + (IF satisfactory THEN 0 ELSE 1)],
                  local |-> local, calls |-> o.calls \cup {"score"}]

planner_node(s, r) ==
    LET o == planner_ordering(s, r)
        local == o.local
        current_idx == local.current_tool_index
        tool_order == local.selected_tool_order
        tools_attempted == local.tools_attempted
    IN  IF o.rejected
        THEN [update |-> [error_message |-> Some(OutOfScopeMessage),
                          planner_reasoning |-> "Out-of-scope query filtered.",
                          workflow_complete |-> TRUE],
              local |-> local, calls |-> o.calls]
        ELSE IF current_idx >= Len(tool_order)
        THEN [update |-> [error_message |-> Some(NoTablesMessage),
                          planner_reasoning |->
                              "All available table categories were checked but none were relevant.",
                          workflow_complete |-> TRUE],
              local |-> local, calls |-> o.calls]
        ELSE LET tool_idx == tool_order[current_idx + 1]
                 satisfactory == is_satisfactory(relevance_score(r.score))
             IN  [update |-> [selected_tables |-> Some(tool_idx),
                              selected_category |-> Some(CategoryName(tool_idx)),
                              tables_satisfactory |-> satisfactory,
                              planner_reasoning |-> "Analyzed " \o CategoryName(tool_idx),
                              tools_attempted |-> Append(tools_attempted, tool_idx),
                              current_tool_index |->
                                  current_idx + (IF satisfactory THEN 0 ELSE 1)],
                  local |-> local, calls |-> o.calls \cup {"score"}]

\* should_continue_planner reading a missing order as the default one, of
\* NumCategories categories
should_continue_planner_default_order(s) ==
    IF s.workflow_complete THEN "error"
    ELSE IF s.tables_satisfactory THEN "sql_generation"
    ELSE IF s.current_tool_index < NumCategories THEN "planner"
    ELSE "error"

\* should_continue_planner that goes on to generation whether or not the
\* category was found adequate
should_continue_planner_skips_adequacy(s) ==
    IF s.workflow_complete THEN "error"
    ELSE "sql_generation"

\* should_continue_planner
should_continue_planner(s) ==
    IF s.workflow_complete THEN "error"
    ELSE IF s.tables_satisfactory THEN "sql_generation"
    ELSE IF s.current_tool_index < Len(s.selected_tool_order) THEN "planner"
    ELSE "error"

(***************************************************************************)
(* SQL texts                                                               *)
(* A generated text is a sequence of tokens: a code fence (three           *)
(* backticks), a line break, a blank, a semicolon, or a word.  A word is a *)
(* keyword, the tag sql that follows an opening fence, or a run of other   *)
(* text that holds none of the former.                                     *)
(***************************************************************************)
Fence == "[fence]"                  \* three backticks
NL == "\n"
SP == " "
Semicolon == ";"
SqlTag == "sql"
Cols == "name FROM customers"
Cte == "recent AS (SELECT id FROM orders)"
Tbl == "TABLE customers"
Where == "WHERE id = 1"

SelectText == <<"SELECT", SP, Cols>>
DropText == <<"DROP", SP, Tbl, Semicolon>>
FencedText == <<Fence, SqlTag, NL, "SELECT", SP, Cols, NL, Fence>>
\* a fence that is opened and never closed
UnclosedText == <<Fence, SqlTag, NL, "SELECT", SP, Cols, NL, Where>>

GenTexts == { SelectText, DropText, <<>>, FencedText, UnclosedText }

GenResponses ==
    [failed : {FALSE}, text : GenTexts] \cup {[failed |-> TRUE, text |-> <<>>]}

Min(S) == CHOOSE x \in S : \A y \in S : x <= y

\* the indexes of the fences of a text
FenceLines(text) == {i \in 1 .. Len(text) : text[i] = Fence}

\* str.upper on a word
UpperWord(w) ==
    CASE w = "select" -> "SELECT"
      [] w = "with" -> "WITH"
      [] w = SqlTag -> "SQL"
      [] OTHER -> w

UpperSql(t) == [i \in 1 .. Len(t) |-> UpperWord(t[i])]

\* str.split("\n")
RECURSIVE SplitLines(_)
SplitLines(t) ==
    LET breaks == {i \in 1 .. Len(t) : t[i] = NL}
    IN  IF breaks = {} THEN <<t>>
        ELSE <<SubSeq(t, 1, Min(breaks) - 1)>>
                 \o SplitLines(SubSeq(t, Min(breaks) + 1, Len(t)))

\* "\n".join
RECURSIVE JoinLines(_)
JoinLines(lines) ==
    IF lines = <<>> THEN <<>>
    ELSE IF Len(lines) = 1 THEN lines[1]
    ELSE lines[1] \o <<NL>> \o JoinLines(Tail(lines))

\* lines 650-656: the response stripped; then, when it holds a fence and
\* the pattern (a fence, an optional sql, blanks, the shortest text, blanks,
\* a fence) matches, the group of the leftmost match, stripped
strip_code_fence(text) ==
    LET sql_query == Strip(text)
        fences == FenceLines(sql_query)
    IN  IF Cardinality(fences) >= 2
        THEN LET first == Min(fences)
                 second == Min(fences \ {first})
                 tagged == first + 1 < second /\ sql_query[first + 1] = SqlTag
             IN  Strip(SubSeq(sql_query, first + (IF tagged THEN 2 ELSE 1), second - 1))
        ELSE sql_query

\* sqlparse: the keywords whose token type is Keyword.DML, Keyword.DDL
DML == {"SELECT", "INSERT", "UPDATE", "DELETE"}
DDL == {"DROP", "CREATE", "ALTER"}

\* sqlparse.parse(sql)[0]: the text up to the first semicolon, with it
FirstStatement(sql) ==
    LET ends == {i \in 1 .. Len(sql) : sql[i] = Semicolon}
    IN  IF ends = {} THEN sql ELSE SubSeq(sql, 1, Min(ends))

\* sqlparse, Statement.get_type after a WITH: the keyword that follows the
\* first identifier that a DML keyword follows, else UNKNOWN
RECURSIVE AfterCte(_)
AfterCte(t) ==
    LET rest == LStrip(t)
    IN  IF rest = <<>> THEN "UNKNOWN"
        ELSE IF Head(rest) = Cte
        THEN LET next == LStrip(Tail(rest))
             IN  IF next # <<>> /\ UpperWord(Head(next)) \in DML
                 THEN UpperWord(Head(next))
                 ELSE AfterCte(Tail(rest))
        ELSE AfterCte(Tail(rest))

\* sqlparse, Statement.get_type: the first token that is not whitespace
\* decides
get_type(stmt) ==
    LET rest == LStrip(stmt)
    IN  IF rest = <<>> THEN "UNKNOWN"
        ELSE LET first == UpperWord(Head(rest))
             IN  IF first \in DML \cup DDL THEN first
                 ELSE IF first = "WITH" THEN AfterCte(Tail(rest))
                 ELSE "UNKNOWN"

\* validate_sql_syntax
validate_sql_syntax(sql) ==
    IF Strip(sql) = <<>> THEN FALSE
    ELSE LET stripped == Strip(sql)
             lines == SplitLines(stripped)
             inner == IF Len(lines) > 2
                      THEN JoinLines(SubSeq(lines, 2, Len(lines) - 1))
                      ELSE stripped
             unfenced == IF Head(stripped) # Fence THEN stripped
                         ELSE IF inner # <<>> /\ Head(inner) = SqlTag
                         THEN Strip(Tail(inner))
                         ELSE inner
             sql_upper == Strip(UpperSql(unfenced))
         IN  IF SQLPARSE_AVAILABLE
             THEN unfenced # <<>> /\ get_type(FirstStatement(unfenced)) \in {"SELECT", "WITH"}
             ELSE sql_upper # <<>> /\ Head(sql_upper) \in {"SELECT", "WITH"}

SyntaxError == "SQL syntax validation failed"
GenerationError == "SQL generation error: the model call raised"

\* lines 588-631: what sql_generation_node adds to the system prompt.
\* regeneration: the REGENERATION REQUEST block is appended, with the
\* previous candidate and the feedback of the evaluation
generation_prompt(s) ==
    LET is_retry == s.needs_regeneration
    IN  [ regeneration |-> is_retry,
          previous_sql |-> IF is_retry THEN s.generated_sql ELSE None,
          feedback |-> IF is_retry THEN Some(s.evaluation_result.feedback) ELSE None ]

\* sql_generation_node whose except branch leaves the attempt count alone
sql_generation_node_uncounted_failure(s, r) ==
    LET attempt_num == s.sql_generation_attempts + 1
    IN  IF r.failed
        THEN [s EXCEPT !.sql_generation_error = Some(GenerationError),
                       !.sql_valid = FALSE]
        ELSE LET sql_query == strip_code_fence(r.text)
                 is_valid == validate_sql_syntax(sql_query)
             IN  [s EXCEPT !.generated_sql = Some(sql_query),
                           !.sql_valid = is_valid,
                           !.sql_generation_attempts = attempt_num,
                           !.sql_history = Append(@, sql_query),
                           !.sql_generation_error =
                               IF is_valid THEN None ELSE Some(SyntaxError),
                           !.needs_regeneration =
                               IF is_valid THEN FALSE ELSE @]

\* sql_generation_node returns the dictionary it mutated
sql_generation_node(s, r) ==
    LET attempt_num == s.sql_generation_attempts + 1
    IN  IF r.failed
        THEN [s EXCEPT !.sql_generation_error = Some(GenerationError),
                       !.sql_valid = FALSE,
                       !.sql_generation_attempts = attempt_num]
        ELSE LET sql_query == strip_code_fence(r.text)
                 is_valid == validate_sql_syntax(sql_query)
             IN  [s EXCEPT !.generated_sql = Some(sql_query),
                           !.sql_valid = is_valid,
                           !.sql_generation_attempts = attempt_num,
                           !.sql_history = Append(@, sql_query),
                           !.sql_generation_error =
                               IF is_valid THEN None ELSE Some(SyntaxError),
                           !.needs_regeneration =
                               IF is_valid THEN FALSE ELSE @]

\* should_retry_sql that hands the candidate to evaluation once the retries
\* are used up
should_retry_sql_evaluates_after_retries(s) ==
    IF s.sql_valid THEN "evaluation"
    ELSE IF s.sql_generation_attempts < SyntaxRetryCap THEN "sql_generation"
    ELSE "evaluation"

\* should_retry_sql
should_retry_sql(s) ==
    IF s.sql_valid THEN "evaluation"
    ELSE IF s.sql_generation_attempts < SyntaxRetryCap THEN "sql_generation"
    ELSE "error"

(***************************************************************************)
(* evaluation_node                                                         *)
(* An evaluation response is a sequence of tokens: an opening brace, a     *)
(* closing brace, the members of a judgment object (what stands between    *)
(* its braces), or a run of other text without braces.                     *)
(***************************************************************************)
LBrace == "{"
RBrace == "}"
Prose == "Consider the joins (see above)."
PassMembers == "passed: true, accuracy_score: 0.9, optimization_score: 0.8, feedback: Query is correct"
FailMembers == "passed: false, accuracy_score: 0.4, optimization_score: 0.5, feedback: Avoid SELECT *"
\* a judgment whose feedback is a list of strings
FailListMembers == "passed: false, accuracy_score: 0.4, optimization_score: 0.5, feedback: [Avoid SELECT *]"

EvalTexts ==
    { <<LBrace, PassMembers, RBrace>>,
      <<LBrace, FailMembers, RBrace>>,
      <<Prose, LBrace, FailMembers, RBrace, Prose>>,
      <<LBrace, FailMembers, RBrace, Prose, LBrace, Prose, RBrace>>,
      <<LBrace, FailListMembers, RBrace>>,
      <<LBrace, RBrace>>,
      <<Prose>> }

EvalResponses ==
    [failed : {FALSE}, text : EvalTexts] \cup {[failed |-> TRUE, text |-> <<>>]}

Max(S) == CHOOSE x \in S : \A y \in S : x >= y

\* line 754, re.search of the pattern (an opening brace, the longest text,
\* a closing brace): the leftmost opening brace that a closing brace follows,
\* up to the last closing brace; None when there is no match
json_match(response_text) ==
    LET closes == {j \in 1 .. Len(response_text) : response_text[j] = RBrace}
        opens == {i \in 1 .. Len(response_text) :
                     /\ response_text[i] = LBrace
                     /\ \E j \in closes : j > i}
    IN  IF opens = {} THEN None
        ELSE Some(SubSeq(response_text, Min(opens), Max(closes)))

\* json.loads: an object with the members of a judgment, the empty object,
\* or JSONDecodeError
json_loads(text) ==
    IF Len(text) = 3 /\ text[1] = LBrace /\ text[3] = RBrace
           /\ text[2] \in {PassMembers, FailMembers, FailListMembers}
    THEN [error |-> FALSE, members |-> Some(text[2])]
    ELSE IF text = <<LBrace, RBrace>>
    THEN [error |-> FALSE, members |-> None]
    ELSE [error |-> TRUE, members |-> None]

\* lines 753-775: what the try block makes of the response.
\* kind: json (an object with the keys of the judgment), partial (an object
\* that lacks one: KeyError) or not_json (JSONDecodeError)
eval_result(response_text) ==
    LET json_text == IF json_match(response_text) # None
                     THEN json_match(response_text)[1]
                     ELSE response_text
        loaded == json_loads(json_text)
    IN  IF loaded.error
        THEN [kind |-> "not_json", passed |-> FALSE, feedback |-> "", feedback_is_str |-> TRUE]
        ELSE IF loaded.members = None
        THEN [kind |-> "partial", passed |-> FALSE, feedback |-> "", feedback_is_str |-> TRUE]
        ELSE IF loaded.members[1] = PassMembers
        THEN [kind |-> "json", passed |-> TRUE, feedback |-> "Query is correct",
              feedback_is_str |-> TRUE]
        ELSE IF loaded.members[1] = FailMembers
        THEN [kind |-> "json", passed |-> FALSE, feedback |-> "Avoid SELECT *",
              feedback_is_str |-> TRUE]
        ELSE [kind |-> "json", passed |-> FALSE, feedback |-> "['Avoid SELECT *']",
              feedback_is_str |-> FALSE]

AutoApprovedParsing ==
    [present |-> TRUE, passed |-> TRUE,
     feedback |-> "Auto-approved due to evaluation parsing error", feedback_is_str |-> TRUE]

AutoApprovedError ==
    [present |-> TRUE, passed |-> TRUE, feedback |-> "Auto-approved due to error",
     feedback_is_str |-> TRUE]

\* evaluation_node ending the run with an error when the response does not
\* parse
evaluation_node_fails_unparsed(s, r) ==
    LET sql_query == s.generated_sql
        j == eval_result(r.text)
    IN  IF r.failed \/ j.kind = "partial"
        THEN [s EXCEPT !.evaluation_result = AutoApprovedError,
                       !.final_sql = sql_query,
                       !.workflow_complete = TRUE]
        ELSE IF j.kind = "not_json"
        THEN [s EXCEPT !.error_message = Some("Evaluation response could not be parsed"),
                       !.workflow_complete = TRUE]
        ELSE [s EXCEPT !.evaluation_result =
                           [present |-> TRUE, passed |-> j.passed, feedback |-> j.feedback,
                            feedback_is_str |-> j.feedback_is_str],
                       !.needs_regeneration = ~j.passed,
                       !.final_sql = IF j.passed THEN sql_query ELSE @,
                       !.workflow_complete = IF j.passed THEN TRUE ELSE @]

\* evaluation_node without the assignment to needs_regeneration
evaluation_node_ignores_verdict(s, r) ==
    LET sql_query == s.generated_sql
        j == eval_result(r.text)
    IN  IF r.failed \/ j.kind = "partial"
        THEN [s EXCEPT !.evaluation_result = AutoApprovedError,
                       !.final_sql = sql_query,
                       !.workflow_complete = TRUE]
        ELSE IF j.kind = "not_json"
        THEN [s EXCEPT !.evaluation_result = AutoApprovedParsing,
                       !.final_sql = sql_query,
                       !.workflow_complete = TRUE]
        ELSE [s EXCEPT !.evaluation_result =
                           [present |-> TRUE, passed |-> j.passed, feedback |-> j.feedback,
                            feedback_is_str |-> j.feedback_is_str],
                       !.final_sql = IF j.passed THEN sql_query ELSE @,
                       !.workflow_complete = IF j.passed THEN TRUE ELSE @]

\* evaluation_node returns the dictionary it mutated
evaluation_node(s, r) ==
    LET sql_query == s.generated_sql
        j == eval_result(r.text)
    IN  IF r.failed \/ j.kind = "partial"
        THEN [s EXCEPT !.evaluation_result = AutoApprovedError,
                       !.final_sql = sql_query,
                       !.workflow_complete = TRUE]
        ELSE IF j.kind = "not_json"
        THEN [s EXCEPT !.evaluation_result = AutoApprovedParsing,
                       !.final_sql = sql_query,
                       !.workflow_complete = TRUE]
        ELSE [s EXCEPT !.evaluation_result =
                           [present |-> TRUE, passed |-> j.passed, feedback |-> j.feedback,
                            feedback_is_str |-> j.feedback_is_str],
                       !.needs_regeneration = ~j.passed,
                       !.final_sql = IF j.passed THEN sql_query ELSE @,
                       !.workflow_complete = IF j.passed THEN TRUE ELSE @]

QualityWarning == "SQL generated but with quality concerns: "

\* should_regenerate_sql that compares with > in place of >=
should_regenerate_sql_off_by_one(s) ==
    IF s.workflow_complete THEN [route |-> "END", local |-> s]
    ELSE IF s.needs_regeneration
    THEN IF s.sql_generation_attempts > RegenerationCap
         THEN IF ~s.evaluation_result.feedback_is_str
              THEN [route |-> "raised", local |-> [s EXCEPT !.final_sql = s.generated_sql]]
              ELSE
              [route |-> "END",
               local |-> [s EXCEPT !.final_sql = s.generated_sql,
                                   !.error_message =
                                       Some(QualityWarning \o s.evaluation_result.feedback),
                                   !.workflow_complete = TRUE]]
         ELSE [route |-> "sql_generation", local |-> s]
    ELSE [route |-> "END", local |-> s]

\* should_regenerate_sql: [route |-> what it returns,
\*                         local |-> its argument as it left it]
\* Line 867 concatenates a str and the feedback of the judgment: with a
\* feedback that is not a str the + raises TypeError after line 866 has run;
\* the exception leaves the function, app.invoke and run_nlp_to_sql (route
\* raised).
should_regenerate_sql(s) ==
    IF s.workflow_complete THEN [route |-> "END", local |-> s]
    ELSE IF s.needs_regeneration
    THEN IF s.sql_generation_attempts >= RegenerationCap
         THEN IF ~s.evaluation_result.feedback_is_str
              THEN [route |-> "raised", local |-> [s EXCEPT !.final_sql = s.generated_sql]]
              ELSE
              [route |-> "END",
               local |-> [s EXCEPT !.final_sql = s.generated_sql,
                                   !.error_message =
                                       Some(QualityWarning \o s.evaluation_result.feedback),
                                   !.workflow_complete = TRUE]]
         ELSE [route |-> "sql_generation", local |-> s]
    ELSE [route |-> "END", local |-> s]

(***************************************************************************)
(* error_node                                                              *)
(***************************************************************************)
\* truthiness of an Optional[str]: neither None nor empty
TruthySql(opt) == opt # None /\ opt[1] # <<>>

TruthyStr(opt) == opt # None /\ opt[1] # ""

GenericError ==
    "I apologize, but I couldn't find any relevant tables or generate a valid query for that specific request."

\* error_node that writes its message whether or not one is set
error_node_overwrites_message(s) ==
    LET message ==
            IF TruthyStr(s.sql_generation_error)
            THEN Some("SQL Generation failed: " \o s.sql_generation_error[1])
            ELSE Some(GenericError)
    IN  [s EXCEPT !.error_message = message, !.workflow_complete = TRUE]

\* error_node that writes False to workflow_complete
error_node_clears_complete(s) ==
    LET message ==
            IF ~TruthyStr(s.error_message)
            THEN IF TruthyStr(s.sql_generation_error)
                 THEN Some("SQL Generation failed: " \o s.sql_generation_error[1])
                 ELSE Some(GenericError)
            ELSE s.error_message
    IN  [s EXCEPT !.error_message = message, !.workflow_complete = FALSE]

\* error_node returns the dictionary it mutated
error_node(s) ==
    LET message ==
            IF ~TruthyStr(s.error_message)
            THEN IF TruthyStr(s.sql_generation_error)
                 THEN Some("SQL Generation failed: " \o s.sql_generation_error[1])
                 ELSE Some(GenericError)
            ELSE s.error_message
    IN  [s EXCEPT !.error_message = message, !.workflow_complete = TRUE]

(***************************************************************************)
(* run_nlp_to_sql: the dictionary returned for the final state result      *)
(***************************************************************************)
UnableMessage ==
    "I was unable to find relevant information or generate a valid query for your request."

\* [CATEGORY_MAP[i]["name"] for i in result.get("selected_tool_order", []) if i in CATEGORY_MAP]
ToolOrderNames(order) ==
    LET known == SelectSeq(order, LAMBDA i : i \in Categories)
    IN  [k \in 1 .. Len(known) |-> CategoryName(known[k])]

\* format_output without the default text of line 1015
format_output_without_default_error(result) ==
    IF TruthySql(result.final_sql)
    THEN [ success |-> TRUE,
           sql |-> result.final_sql,
           category |-> result.selected_category,
           tool_order |-> ToolOrderNames(result.selected_tool_order),
           evaluation |-> result.evaluation_result,
           planner_reasoning |-> result.planner_reasoning,
           attempts |-> result.sql_generation_attempts,
           sql_history |-> result.sql_history,
           tool_calls_made |-> result.tool_calls_made ]
    ELSE [ success |-> FALSE,
           error |-> result.error_message,
           attempts |-> result.sql_generation_attempts,
           category |-> result.selected_category,
           tool_order |-> ToolOrderNames(result.selected_tool_order),
           planner_reasoning |-> result.planner_reasoning,
           evaluation |-> result.evaluation_result,
           sql_history |-> result.sql_history,
           tool_calls_made |-> result.tool_calls_made ]

\* the two dictionaries of lines 995-1006 and 1012-1023: the first has no
\* key error, the second no key sql
format_output(result) ==
    IF TruthySql(result.final_sql)
    THEN [ success |-> TRUE,
           sql |-> result.final_sql,
           category |-> result.selected_category,
           tool_order |-> ToolOrderNames(result.selected_tool_order),
           evaluation |-> result.evaluation_result,
           planner_reasoning |-> result.planner_reasoning,
           attempts |-> result.sql_generation_attempts,
           sql_history |-> result.sql_history,
           tool_calls_made |-> result.tool_calls_made ]
    ELSE [ success |-> FALSE,
           error |-> IF TruthyStr(result.error_message)
                     THEN result.error_message ELSE Some(UnableMessage),
           attempts |-> result.sql_generation_attempts,
           category |-> result.selected_category,
           tool_order |-> ToolOrderNames(result.selected_tool_order),
           planner_reasoning |-> result.planner_reasoning,
           evaluation |-> result.evaluation_result,
           sql_history |-> result.sql_history,
           tool_calls_made |-> result.tool_calls_made ]

(***************************************************************************)
(* The graph of create_nlp_to_sql_graph, run by app.invoke(initial_state): *)
(* one action per node, each followed by the conditional edge that leaves  *)
(* the node; then run_nlp_to_sql formats what invoke returned.             *)
(***************************************************************************)
NoResponses == [step |-> "none"]

\* what the nodes call llm_client for
CallKinds == {"ordering", "scope", "score", "generation", "evaluation"}

\* the counters of audit stop counting at MaxAudit
Count(n) == IF n < MaxAudit THEN n + 1 ELSE n

\* LLMClient._instance = None, and no operation called yet
NoClient == [instance |-> None, last |-> None]

Threads == 1 .. NumThreads

\* the process before load_dotenv(): LLMClient._instance = None, no object
\* of the class yet, every thread outside get_llm_client()
NoCallers ==
    [ env |-> None,
      _instance |-> None,
      objects |-> <<>>,
      initialized |-> 0,
      pc |-> [t \in Threads |-> "idle"],
      self |-> [t \in Threads |-> 0],
      got |-> [t \in Threads |-> 0],
      observed |-> [t \in Threads |-> {}] ]

\* the two calls of run_nlp_to_sql
Runs == {1, 2}

\* a call that has not started
NoRun ==
    [ ref |-> 0, node |-> "idle", verbose |-> FALSE, trail |-> <<>>,
      printed |-> <<>>, output |-> None ]

\* no function called on its own yet
NoProbe == [fn |-> "none"]

\* no dictionary allocated, no call started
NoPair == [heap |-> <<>>, run |-> [i \in Runs |-> NoRun]]

Init ==
    /\ client = NoClient
    /\ callers = NoCallers
    /\ pair = NoPair
    /\ SQLPARSE_AVAILABLE \in BOOLEAN
    /\ probe = NoProbe
    /\ state = initial_state
    /\ node = "planner"
    /\ node_view = initial_state
    /\ edge_view = initial_state
    /\ output = None
    /\ received = NoResponses
    /\ audit = [ parity |-> 0,            \* number of nodes run so far, modulo 2
                 rejected_run |-> 0,      \* candidates rejected by syntax validation
                                          \* since the last valid one
                 syntax_retries |-> 0,    \* times sql_generation followed sql_generation
                 regenerations |-> 0,     \* times sql_generation followed evaluation
                 calls |-> [k \in CallKinds |-> 0],  \* calls of llm_client, by purpose
                 scope |-> None,          \* the answer of the scope call, once made
                 judged |-> <<>>,         \* the categories scored, in the order scored
                 raised |-> {} ]          \* the purposes of the calls of llm_client that raised

PlannerStep ==
    /\ node = "planner"
    /\ \E r \in PlannerResponses :
         LET ret == planner_node(state, r)
             s2 == ApplyUpdate(StoredInPlace(state, ret.local), ret.update)
         IN  /\ state' = s2
             /\ node_view' = ret.local
             /\ edge_view' = s2
             /\ node' = should_continue_planner(s2)
             /\ received' =
                    [step |-> "planner",
                     ordering |-> r.ordering,
                     scope |-> IF "scope" \in ret.calls THEN Some(r.scope) ELSE None,
                     score |-> IF "score" \in ret.calls THEN Some(r.score) ELSE None]
             /\ audit' = [audit EXCEPT
                    !.parity = 1 - @,
                    !.calls = [k \in CallKinds |->
                                  IF k \in ret.calls THEN Count(@[k]) ELSE @[k]],
                    !.scope = IF "scope" \in ret.calls THEN Some(r.scope) ELSE @,
                    !.raised = @ \cup {k \in ret.calls \cap DOMAIN r : r[k].failed},
                    !.judged = IF "score" \in ret.calls /\ Len(@) < MaxAudit
                               THEN Append(@, ret.update.selected_tables[1]) ELSE @]
    /\ UNCHANGED <<output, client, callers, pair, SQLPARSE_AVAILABLE, probe>>

GenerationStep ==
    /\ node = "sql_generation"
    /\ \E r \in GenResponses :
         LET s2 == sql_generation_node(state, r)
             route == should_retry_sql(s2)
         IN  /\ state' = s2
             /\ node_view' = s2
             /\ edge_view' = s2
             /\ node' = route
             /\ received' = [step |-> "sql_generation", generation |-> r,
                             prompt |-> generation_prompt(state)]
             /\ audit' = [audit EXCEPT
                    !.parity = 1 - @,
                    !.calls = [@ EXCEPT !["generation"] = Count(@)],
                    !.raised = IF r.failed THEN @ \cup {"generation"} ELSE @,
                    !.rejected_run =
                        IF r.failed THEN @ ELSE IF s2.sql_valid THEN 0 ELSE Count(@),
                    !.syntax_retries = IF route = "sql_generation" THEN Count(@) ELSE @]
    /\ UNCHANGED <<output, client, callers, pair, SQLPARSE_AVAILABLE, probe>>

EvaluationStep ==
    /\ node = "evaluation"
    /\ \E r \in EvalResponses :
         LET s2 == evaluation_node(state, r)
             edge == should_regenerate_sql(s2)
         IN  /\ state' = s2
             /\ node_view' = s2
             /\ edge_view' = edge.local
             /\ node' = edge.route
             /\ received' = [step |-> "evaluation", evaluation |-> r]
             /\ audit' = [audit EXCEPT
                    !.parity = 1 - @,
                    !.calls = [@ EXCEPT !["evaluation"] = Count(@)],
                    !.raised = IF r.failed THEN @ \cup {"evaluation"} ELSE @,
                    !.regenerations =
                        IF edge.route = "sql_generation" THEN Count(@) ELSE @]
    /\ UNCHANGED <<output, client, callers, pair, SQLPARSE_AVAILABLE, probe>>

ErrorStep ==
    /\ node = "error"
    /\ state' = error_node(state)
    /\ node_view' = state'
    /\ edge_view' = state'
    /\ node' = "END"
    /\ received' = [step |-> "error"]
    /\ audit' = [audit EXCEPT !.parity = 1 - @]
    /\ UNCHANGED <<output, client, callers, pair, SQLPARSE_AVAILABLE, probe>>

\* run_nlp_to_sql, lines 990-1031
Return ==
    /\ node = "END"
    /\ output' = Some(format_output(state))
    /\ node' = "returned"
    /\ UNCHANGED <<state, node_view, edge_view, received, audit, client, callers, pair, SQLPARSE_AVAILABLE, probe>>

Next == PlannerStep \/ GenerationStep \/ EvaluationStep \/ ErrorStep \/ Return

Spec == Init /\ [][Next]_vars

\* A run is one synchronous call: each node runs as soon as the one before
\* it has returned.
FairSpec == Spec /\ WF_vars(Next)

(***************************************************************************)
(* llm_client.py: LLMClient, the client of the two model backends          *)
(* (primary: Groq through the OpenAI SDK, fallback: Mistral).              *)
(* An environment variable is None (unset) or Some(text).  A backend call  *)
(* returns a message or raises; a message is what the SDK hands back for   *)
(* choices[0].message: content (None or a text), role, and tool_calls, a   *)
(* list of objects with id, type and function (name, arguments).           *)
(***************************************************************************)
EnvValues == {None, Some(""), Some("key")}

ToolCallObjects ==
    { [id |-> "call_1", type |-> "function",
       function |-> [name |-> "get_customer_sales_tables",
                     arguments |-> "{\"reasoning\": \"sales\"}"]],
      [id |-> "call_2", type |-> "function",
       function |-> [name |-> "get_weather", arguments |-> "{}"]] }

Messages ==
    [content : {None, Some("0.9")}, role : {"assistant"},
     tool_calls : SeqsUpTo(ToolCallObjects, MaxToolCalls)]

PrimaryErrors == {"openai.AuthenticationError", "openai.APIConnectionError"}
FallbackErrors == {"mistralai.SDKError"}

NoMessage == [content |-> None, role |-> "", tool_calls |-> <<>>]

\* what one call of a backend does: return a message, or raise
BackendReplies(errors) ==
    [raised : {FALSE}, message : Messages, error : {""}]
        \cup [raised : {TRUE}, message : {NoMessage}, error : errors]

Operations == {"generate", "generate_with_tools", "chat"}

\* an exception that leaves an operation: its type, its text, and the
\* exceptions chained to it (__cause__ / __context__)
Exception(type, text) == [type |-> type, text |-> text, chained |-> {}]

ExhaustedText == "Both primary and fallback LLM models failed or are not configured."

\* the truth value of an Optional[str]
TruthyKey(key) == key # None /\ key[1] # ""

\* _initialize with the test of primary_api_key left out
_initialize_always_builds_primary(env) ==
    [ primary_api_key |-> env.GROQ_API_KEY,
      primary_client |-> TRUE,
      mistral_api_key |-> env.MISTRAL_API_KEY ]

\* LLMClient._initialize: primary_client is TRUE for an OpenAI client, FALSE
\* for None
_initialize(env) ==
    [ primary_api_key |-> env.GROQ_API_KEY,
      primary_client |-> TruthyKey(env.GROQ_API_KEY),
      mistral_api_key |-> env.MISTRAL_API_KEY ]

\* the list comprehension over message.tool_calls
tool_call_list(message) ==
    [i \in 1 .. Len(message.tool_calls) |->
        [id |-> message.tool_calls[i].id,
         function |-> [name |-> message.tool_calls[i].function.name,
                       arguments |-> message.tool_calls[i].function.arguments]]]

\* what each operation returns for a message of the primary backend; the
\* str that generate returns is the field text
primary_result(op, message) ==
    CASE op = "generate" -> [text |-> message.content]
      [] op = "generate_with_tools" ->
             [content |-> message.content, tool_calls |-> tool_call_list(message)]
      [] op = "chat" ->
             [content |-> message.content, tool_calls |-> tool_call_list(message),
              role |-> message.role]

\* the fallback branch returning the content alone for every operation
fallback_result_content_only(op, message) ==
    CASE op = "generate" -> [text |-> message.content]
      [] op = "generate_with_tools" ->
             [content |-> message.content, tool_calls |-> <<>>]
      [] op = "chat" ->
             [content |-> message.content, tool_calls |-> <<>>,
              role |-> message.role]

\* what each operation returns for a message of the fallback backend
fallback_result(op, message) ==
    CASE op = "generate" -> [text |-> message.content]
      [] op = "generate_with_tools" ->
             [content |-> message.content, tool_calls |-> tool_call_list(message)]
      [] op = "chat" ->
             [content |-> message.content, tool_calls |-> tool_call_list(message),
              role |-> message.role]

NoException == [type |-> "", text |-> "", chained |-> {}]
NoValue == [text |-> None]

\* the shared body calling the fallback backend also after the primary
\* backend has answered
try_backends_fallback_after_success(self, op, io) ==
    LET tried == IF self.primary_client THEN <<"primary">> ELSE <<>>
        printed == IF self.primary_client THEN <<io.primary.error>> ELSE <<>>
    IN  IF self.primary_client /\ ~io.primary.raised
        THEN [calls |-> IF TruthyKey(self.mistral_api_key)
                        THEN <<"primary", "fallback">> ELSE <<"primary">>,
              printed |-> <<>>, raised |-> FALSE,
              value |-> primary_result(op, io.primary.message),
              exception |-> NoException]
        ELSE IF TruthyKey(self.mistral_api_key)
        THEN IF ~io.fallback.raised
             THEN [calls |-> Append(tried, "fallback"), printed |-> printed,
                   raised |-> FALSE,
                   value |-> fallback_result(op, io.fallback.message),
                   exception |-> NoException]
             ELSE [calls |-> Append(tried, "fallback"),
                   printed |-> Append(printed, io.fallback.error),
                   raised |-> TRUE, value |-> NoValue,
                   exception |-> Exception(io.fallback.error, "")]
        ELSE [calls |-> tried, printed |-> printed, raised |-> TRUE,
              value |-> NoValue,
              exception |-> Exception("ValueError", ExhaustedText)]

\* the shared body calling the primary backend a second time when its first
\* call raised
try_backends_retries_primary(self, op, io) ==
    LET tried == IF self.primary_client THEN <<"primary", "primary">> ELSE <<>>
        printed == IF self.primary_client THEN <<io.primary.error>> ELSE <<>>
    IN  IF self.primary_client /\ ~io.primary.raised
        THEN [calls |-> <<"primary">>, printed |-> <<>>, raised |-> FALSE,
              value |-> primary_result(op, io.primary.message),
              exception |-> NoException]
        ELSE IF TruthyKey(self.mistral_api_key)
        THEN IF ~io.fallback.raised
             THEN [calls |-> Append(tried, "fallback"), printed |-> printed,
                   raised |-> FALSE,
                   value |-> fallback_result(op, io.fallback.message),
                   exception |-> NoException]
             ELSE [calls |-> Append(tried, "fallback"),
                   printed |-> Append(printed, io.fallback.error),
                   raised |-> TRUE, value |-> NoValue,
                   exception |-> Exception(io.fallback.error, "")]
        ELSE [calls |-> tried, printed |-> printed, raised |-> TRUE,
              value |-> NoValue,
              exception |-> Exception("ValueError", ExhaustedText)]

\* The body the three operations share: the primary backend if there is a
\* client for it, then the fallback backend if it has a key, then the
\* ValueError.  io holds what a call of each backend would do.
\* calls: the backends called, in order; printed: the errors print()ed.
try_backends(self, op, io) ==
    LET tried == IF self.primary_client THEN <<"primary">> ELSE <<>>
        printed == IF self.primary_client THEN <<io.primary.error>> ELSE <<>>
    IN  IF self.primary_client /\ ~io.primary.raised
        THEN [calls |-> <<"primary">>, printed |-> <<>>, raised |-> FALSE,
              value |-> primary_result(op, io.primary.message),
              exception |-> NoException]
        ELSE IF TruthyKey(self.mistral_api_key)
        THEN IF ~io.fallback.raised
             THEN [calls |-> Append(tried, "fallback"), printed |-> printed,
                   raised |-> FALSE,
                   value |-> fallback_result(op, io.fallback.message),
                   exception |-> NoException]
             ELSE [calls |-> Append(tried, "fallback"),
                   printed |-> Append(printed, io.fallback.error),
                   raised |-> TRUE, value |-> NoValue,
                   exception |-> Exception(io.fallback.error, "")]
        ELSE [calls |-> tried, printed |-> printed, raised |-> TRUE,
              value |-> NoValue,
              exception |-> Exception("ValueError", ExhaustedText)]

generate(self, io) == try_backends(self, "generate", io)

generate_with_tools(self, io) == try_backends(self, "generate_with_tools", io)

chat(self, io) == try_backends(self, "chat", io)

\* what the operation op left behind: the replies it consumed and its outcome
Called(op, io, out) ==
    Some([ op |-> op,
           primary |-> IF "primary" \in Range(out.calls) THEN Some(io.primary) ELSE None,
           fallback |-> IF "fallback" \in Range(out.calls) THEN Some(io.fallback) ELSE None,
           calls |-> out.calls,
           printed |-> out.printed,
           raised |-> out.raised,
           value |-> out.value,
           exception |-> out.exception ])

BackendIO == [primary : BackendReplies(PrimaryErrors), fallback : BackendReplies(FallbackErrors)]

Environments == [GROQ_API_KEY : EnvValues, MISTRAL_API_KEY : EnvValues]

\* get_llm_client() -> LLMClient.__new__: the first call builds the instance
GetLLMClient ==
    /\ client.instance = None
    /\ \E env \in Environments :
         client' = [client EXCEPT !.instance = Some(_initialize(env))]
    /\ UNCHANGED <<graph_vars, callers, pair, SQLPARSE_AVAILABLE, probe>>

Generate ==
    /\ client.instance # None
    /\ \E io \in BackendIO :
         client' = [client EXCEPT
                       !.last = Called("generate", io, generate(client.instance[1], io))]
    /\ UNCHANGED <<graph_vars, callers, pair, SQLPARSE_AVAILABLE, probe>>

GenerateWithTools ==
    /\ client.instance # None
    /\ \E io \in BackendIO :
         client' = [client EXCEPT
                       !.last = Called("generate_with_tools", io,
                                       generate_with_tools(client.instance[1], io))]
    /\ UNCHANGED <<graph_vars, callers, pair, SQLPARSE_AVAILABLE, probe>>

Chat ==
    /\ client.instance # None
    /\ \E io \in BackendIO :
         client' = [client EXCEPT
                       !.last = Called("chat", io, chat(client.instance[1], io))]
    /\ UNCHANGED <<graph_vars, callers, pair, SQLPARSE_AVAILABLE, probe>>

ClientNext == GetLLMClient \/ Generate \/ GenerateWithTools \/ Chat

\* the client on its own: an instance is built once, then operations are
\* called on it one after the other
ClientSpec == Init /\ [][ClientNext]_vars

(***************************************************************************)
(* Two calls of run_nlp_to_sql in one process, their node steps            *)
(* interleaved.  pair.heap holds the state dictionaries allocated so far;  *)
(* a call works on the dictionary its ref names.  trail is what the call   *)
(* has consumed so far, one entry per node run.                            *)
(***************************************************************************)
\* the model responses of the two calls: a few of each kind
PairPlannerResponses ==
    {r \in PlannerResponses :
        /\ r.ordering \in {[failed |-> FALSE, tool_calls |-> <<>>],
                           [failed |-> FALSE,
                            tool_calls |-> <<"get_inventory_products_tables">>]}
        /\ r.scope = [failed |-> FALSE, text |-> <<"n", "o">>]
        /\ r.score.text \in {<<"0", ".", "9">>, <<"0", ".", "7", "9">>}}

PairGenResponses ==
    {r \in GenResponses : r.failed \/ r.text \in {SelectText, DropText}}

PairEvalResponses ==
    {r \in EvalResponses :
        r.text \in {<<LBrace, PassMembers, RBrace>>, <<LBrace, FailMembers, RBrace>>, <<Prose>>}}

\* initial_state defined once for the module and handed to every call
allocate_state_shared(heap) ==
    IF heap = <<>> THEN [heap |-> <<initial_state>>, ref |-> 1]
    ELSE [heap |-> heap, ref |-> 1]

\* lines 962-985: the dictionary literal builds a new dictionary, with new
\* lists, in every call
allocate_state(heap) == [heap |-> Append(heap, initial_state), ref |-> Len(heap) + 1]

\* run_nlp_to_sql returning less when it is not verbose
run_result_terse_when_quiet(result, verbose) ==
    IF verbose THEN format_output(result)
    ELSE [format_output(result) EXCEPT !.sql_history = <<>>]

\* lines 990-1031: the dictionary run_nlp_to_sql returns
run_result(result, verbose) == format_output(result)

\* lines 952-956, 1008-1011, 1025-1029: what run_nlp_to_sql prints
run_banner(verbose) == IF verbose THEN <<"MULTI-AGENT NLP-TO-SQL SYSTEM">> ELSE <<>>

run_report(out, verbose) ==
    IF ~verbose THEN <<>>
    ELSE IF out.success THEN <<"SUCCESS - SQL GENERATED">> ELSE <<"FAILED">>

\* the call i leaves the node it ran: its dictionary becomes s2, its next
\* node node2, and entry is added to its trail
Advance(i, s2, node2, entry) ==
    pair' = [pair EXCEPT
                !.heap[pair.run[i].ref] = s2,
                !.run[i].node = node2,
                !.run[i].trail = Append(@, entry)]

\* run_nlp_to_sql(user_query, verbose) up to app.invoke
StartRun(i) ==
    /\ pair.run[i].node = "idle"
    /\ \E verbose \in BOOLEAN :
         LET a == allocate_state(pair.heap)
         IN  pair' = [pair EXCEPT
                         !.heap = a.heap,
                         !.run[i].ref = a.ref,
                         !.run[i].verbose = verbose,
                         !.run[i].printed = run_banner(verbose),
                         !.run[i].node = "planner"]
    /\ UNCHANGED <<graph_vars, client, callers, SQLPARSE_AVAILABLE, probe>>

RunPlanner(i) ==
    /\ pair.run[i].node = "planner"
    /\ \E r \in PairPlannerResponses :
         LET s == pair.heap[pair.run[i].ref]
             ret == planner_node(s, r)
             s2 == ApplyUpdate(StoredInPlace(s, ret.local), ret.update)
         IN  Advance(i, s2, should_continue_planner(s2),
                     [step |-> "planner",
                      ordering |-> r.ordering,
                      scope |-> IF "scope" \in ret.calls THEN Some(r.scope) ELSE None,
                      score |-> IF "score" \in ret.calls THEN Some(r.score) ELSE None])
    /\ UNCHANGED <<graph_vars, client, callers, SQLPARSE_AVAILABLE, probe>>

RunGeneration(i) ==
    /\ pair.run[i].node = "sql_generation"
    /\ \E r \in PairGenResponses :
         LET s2 == sql_generation_node(pair.heap[pair.run[i].ref], r)
         IN  Advance(i, s2, should_retry_sql(s2),
                     [step |-> "sql_generation", generation |-> r])
    /\ UNCHANGED <<graph_vars, client, callers, SQLPARSE_AVAILABLE, probe>>

RunEvaluation(i) ==
    /\ pair.run[i].node = "evaluation"
    /\ \E r \in PairEvalResponses :
         LET s2 == evaluation_node(pair.heap[pair.run[i].ref], r)
         IN  Advance(i, s2, should_regenerate_sql(s2).route,
                     [step |-> "evaluation", evaluation |-> r])
    /\ UNCHANGED <<graph_vars, client, callers, SQLPARSE_AVAILABLE, probe>>

RunError(i) ==
    /\ pair.run[i].node = "error"
    /\ Advance(i, error_node(pair.heap[pair.run[i].ref]), "END", [step |-> "error"])
    /\ UNCHANGED <<graph_vars, client, callers, SQLPARSE_AVAILABLE, probe>>

\* run_nlp_to_sql after app.invoke
RunReturn(i) ==
    /\ pair.run[i].node = "END"
    /\ LET out == run_result(pair.heap[pair.run[i].ref], pair.run[i].verbose)
       IN  pair' = [pair EXCEPT
                       !.run[i].output = Some(out),
                       !.run[i].printed = @ \o run_report(out, pair.run[i].verbose),
                       !.run[i].node = "returned"]
    /\ UNCHANGED <<graph_vars, client, callers, SQLPARSE_AVAILABLE, probe>>

PairNext ==
    \E i \in Runs :
        \/ StartRun(i) \/ RunPlanner(i) \/ RunGeneration(i)
        \/ RunEvaluation(i) \/ RunError(i) \/ RunReturn(i)

PairSpec == Init /\ [][PairNext]_vars

(***************************************************************************)
(* llm_client.py: LLMClient.__new__ and _initialize run by several threads *)
(* Each action is one statement of lines 20-44.  An object of the class is *)
(* the set of its attributes that are set, with their values.              *)
(***************************************************************************)
PrimaryAttributes == {"primary_api_key", "primary_base_url", "primary_model", "primary_client"}
FallbackAttributes == {"mistral_api_key", "mistral_model"}

\* super().__new__(cls): an object without attributes
BareObject == [attributes |-> {}, config |-> _initialize([GROQ_API_KEY |-> None,
                                                         MISTRAL_API_KEY |-> None])]

\* line 13: load_dotenv(), after which os.getenv answers from env
LoadDotenv ==
    /\ callers.env = None
    /\ \E env \in Environments : callers' = [callers EXCEPT !.env = Some(env)]
    /\ UNCHANGED <<graph_vars, client, pair, SQLPARSE_AVAILABLE, probe>>

\* line 21: if cls._instance is None
NewTest(t) ==
    /\ callers.env # None
    /\ callers.pc[t] = "idle"
    /\ callers' = [callers EXCEPT
           !.pc[t] = IF callers._instance = None THEN "line22" ELSE "line24"]
    /\ UNCHANGED <<graph_vars, client, pair, SQLPARSE_AVAILABLE, probe>>

\* line 22: cls._instance = super(LLMClient, cls).__new__(cls)
NewAllocate(t) ==
    /\ callers.pc[t] = "line22"
    /\ callers' = [callers EXCEPT
           !.objects = Append(@, BareObject),
           !._instance = Some(Len(callers.objects) + 1),
           !.pc[t] = "line23"]
    /\ UNCHANGED <<graph_vars, client, pair, SQLPARSE_AVAILABLE, probe>>

\* line 23: cls._instance._initialize(): the object cls._instance names now
NewInitialize(t) ==
    /\ callers.pc[t] = "line23"
    /\ callers' = [callers EXCEPT
           !.self[t] = callers._instance[1],
           !.initialized = @ + 1,
           !.pc[t] = "line29"]
    /\ UNCHANGED <<graph_vars, client, pair, SQLPARSE_AVAILABLE, probe>>

\* lines 29-37 of _initialize: the attributes of the primary backend
InitializePrimary(t) ==
    /\ callers.pc[t] = "line29"
    /\ LET o == callers.self[t]
       IN  callers' = [callers EXCEPT
               !.objects[o].attributes = @ \cup PrimaryAttributes,
               !.objects[o].config.primary_api_key =
                   _initialize(callers.env[1]).primary_api_key,
               !.objects[o].config.primary_client =
                   _initialize(callers.env[1]).primary_client,
               !.pc[t] = "line40"]
    /\ UNCHANGED <<graph_vars, client, pair, SQLPARSE_AVAILABLE, probe>>

\* lines 40-44 of _initialize: the attributes of the fallback backend
InitializeFallback(t) ==
    /\ callers.pc[t] = "line40"
    /\ LET o == callers.self[t]
       IN  callers' = [callers EXCEPT
               !.objects[o].attributes = @ \cup FallbackAttributes,
               !.objects[o].config.mistral_api_key =
                   _initialize(callers.env[1]).mistral_api_key,
               !.pc[t] = "line24"]
    /\ UNCHANGED <<graph_vars, client, pair, SQLPARSE_AVAILABLE, probe>>

\* line 24: return cls._instance
NewReturn(t) ==
    /\ callers.pc[t] = "line24"
    /\ callers' = [callers EXCEPT !.got[t] = callers._instance[1], !.pc[t] = "use"]
    /\ UNCHANGED <<graph_vars, client, pair, SQLPARSE_AVAILABLE, probe>>

\* the caller enters an operation, which reads self.primary_client (line 55)
\* and self.mistral_api_key (line 71): observed is what it finds set
UseClient(t) ==
    /\ callers.pc[t] = "use"
    /\ callers' = [callers EXCEPT
           !.observed[t] = callers.objects[callers.got[t]].attributes,
           !.pc[t] = "done"]
    /\ UNCHANGED <<graph_vars, client, pair, SQLPARSE_AVAILABLE, probe>>

CallersNext ==
    \/ LoadDotenv
    \/ \E t \in Threads :
          \/ NewTest(t) \/ NewAllocate(t) \/ NewInitialize(t)
          \/ InitializePrimary(t) \/ InitializeFallback(t)
          \/ NewReturn(t) \/ UseClient(t)

\* NumThreads threads that call get_llm_client() in one process
CallersSpec == Init /\ [][CallersNext]_vars

(***************************************************************************)
(* validate_sql_syntax called on its own: ValidateSpec draws one text and  *)
(* applies the function to it, with and without sqlparse.                  *)
(***************************************************************************)
\* the lines the texts are made of
SqlLines ==
    { <<>>, <<SP>>, <<Fence>>, <<Fence, SqlTag>>,
      SelectText,
      <<SP, "select", SP, Cols>>,
      <<"WITH", SP, Cte, SP, "SELECT", SP, Cols>>,
      <<"WITH", SP, Cte, SP, "DELETE", SP, Cols>>,
      DropText,
      <<"SELECT", SP, Cols, Semicolon, SP, "DROP", SP, Tbl, Semicolon>> }

SqlTexts == {JoinLines(lines) : lines \in SeqsUpTo(SqlLines, MaxLines) \ {<<>>}}

ValidateSqlSyntax ==
    /\ probe = NoProbe
    /\ \E sql \in SqlTexts :
         probe' = [fn |-> "validate_sql_syntax", sql |-> sql,
                   result |-> validate_sql_syntax(sql)]
    /\ UNCHANGED <<graph_vars, client, callers, pair, SQLPARSE_AVAILABLE>>

ValidateNext == ValidateSqlSyntax

ValidateSpec == Init /\ [][ValidateNext]_vars

(***************************************************************************)
(* Properties                                                              *)
(***************************************************************************)
IsSet(opt) == opt # None

\* exactly one of final_sql and error_message is set in the dictionary d
ExactlyOneOutcome(d) == IsSet(d.final_sql) # IsSet(d.error_message)

\* the last step was an evaluation whose judgment parsed with a fail verdict
ParsedFail ==
    /\ received.step = "evaluation"
    /\ ~received.evaluation.failed
    /\ eval_result(received.evaluation.text).kind = "json"
    /\ ~eval_result(received.evaluation.text).passed

\* the evaluation edge took its branch at the regeneration cap
ForcedAcceptance ==
    /\ ParsedFail
    /\ state.sql_generation_attempts >= RegenerationCap

\* C1: whenever workflow_complete is true in a dictionary of the run (the
\* run's state, or the one an edge function holds), exactly one of final_sql
\* and error_message is set in it; and every run that has reached END is
\* complete with exactly one of the two set.
C1_ExactlyOneOutcomeWhenComplete ==
    /\ state.workflow_complete => ExactlyOneOutcome(state)
    /\ edge_view.workflow_complete => ExactlyOneOutcome(edge_view)
    /\ node \in {"END", "returned"} =>
           state.workflow_complete /\ ExactlyOneOutcome(state)

\* C2: every run terminates: under FairSpec the graph reaches END, whatever
\* the model responses are.
C2_RunTerminates == <>(node = "END")

C2_Witness ==
    /\ node = "END"
    /\ audit.syntax_retries > 0
    /\ audit.regenerations > 0

\* C3: workflow_complete is a one-way latch: a step taken from a state in
\* which it is true leaves it true, in the run's state and in the
\* dictionaries the step's node and edge function held.
C3_CompleteIsLatched ==
    [][state.workflow_complete =>
         /\ state'.workflow_complete
         /\ node_view'.workflow_complete
         /\ edge_view'.workflow_complete]_vars

C3_Witness ==
    /\ received.step = "error"
    /\ state.planner_reasoning = "Out-of-scope query filtered."
    /\ state.workflow_complete
    /\ node = "END"

\* C4: sql_generation_attempts never exceeds the regeneration cap of 4, and
\* the generation node is never entered with the counter already at 4.
C4_AttemptsWithinCap ==
    /\ state.sql_generation_attempts <= RegenerationCap
    /\ node = "sql_generation" => state.sql_generation_attempts < RegenerationCap

C4_Witness ==
    /\ state.sql_generation_attempts = RegenerationCap
    /\ audit.syntax_retries > 0
    /\ audit.regenerations > 0

\* the last step was a generation whose candidate failed syntax validation
CandidateRejected ==
    /\ received.step = "sql_generation"
    /\ ~received.generation.failed
    /\ ~state.sql_valid

\* C5: a run ends with the syntax-failure error only after 2 candidates in a
\* row were rejected by syntax validation, and a rejected candidate that is
\* not the second in a row is followed by another generation, also when the
\* rejection follows an evaluation-driven regeneration.
C5_SyntaxRetryBeforeFailure ==
    /\ state.error_message = Some("SQL Generation failed: " \o SyntaxError) =>
           audit.rejected_run >= SyntaxRetryCap
    /\ CandidateRejected /\ audit.rejected_run < SyntaxRetryCap =>
           node = "sql_generation"

\* C6: a parsed fail verdict with the attempt counter at 4 ends the run in
\* Done: the latest candidate is final_sql, workflow_complete is true, and
\* run_nlp_to_sql returns success = true with sql equal to that candidate.
C6_ForcedAcceptanceEndsInDone ==
    ForcedAcceptance =>
        /\ node \in {"END", "returned"}
        /\ state.final_sql = state.generated_sql
        /\ state.workflow_complete
        /\ node = "returned" =>
               output[1].success /\ output[1].sql = state.generated_sql

\* C7: the result returned after forced acceptance has success = true and
\* carries the quality-concern warning attached at forced acceptance.
C7_ForcedAcceptanceCarriesWarning ==
    ForcedAcceptance /\ node = "returned" =>
        /\ output[1].success
        /\ output[1].error = Some(QualityWarning \o state.evaluation_result.feedback)

\* C8: the two budgets are independent: a run reaches forced acceptance after
\* the same number of evaluation-driven regenerations (3) whether or not it
\* retried after a syntax failure, and a rejected candidate ends the run only
\* once a syntax retry has been used, whether or not the run regenerated.
C8_BudgetsIndependent ==
    /\ ForcedAcceptance => audit.regenerations = RegenerationCap - 1
    /\ CandidateRejected /\ node = "error" =>
           audit.syntax_retries >= SyntaxRetryCap - 1

\* position of category i in the order
PositionIn(order, i) == CHOOSE k \in 1 .. Len(order) : order[k] = i

\* the categories the tool invocations name
Mentioned(calls) ==
    {tool_name_to_index(calls[k]) : k \in {j \in 1 .. Len(calls) : KnownTool(calls[j])}}

\* index of the first invocation that names category i
FirstMention(calls, i) ==
    CHOOSE k \in 1 .. Len(calls) :
        /\ KnownTool(calls[k]) /\ tool_name_to_index(calls[k]) = i
        /\ \A j \in 1 .. (k - 1) :
               ~(KnownTool(calls[j]) /\ tool_name_to_index(calls[j]) = i)

IsPermutation(order) ==
    /\ Len(order) = NumCategories
    /\ Range(order) = Categories

\* order lists the categories named by calls by first mention, then the rest
\* in ascending order
OrderedByMention(order, calls) ==
    LET m == Mentioned(calls)
    IN  /\ \A i, j \in m :
               FirstMention(calls, i) < FirstMention(calls, j) =>
                   PositionIn(order, i) < PositionIn(order, j)
        /\ \A i \in m, j \in Categories \ m :
               PositionIn(order, i) < PositionIn(order, j)
        /\ \A i, j \in Categories \ m :
               i < j => PositionIn(order, i) < PositionIn(order, j)

\* C9: whenever selected_tool_order has been computed it is a permutation of
\* the categories 0, 1, 2: the categories of the tool invocations by first
\* occurrence, then the others in ascending order, also for unknown tool
\* names, repeats and a failed ordering call.
C9_ToolOrderIsPermutation ==
    /\ \A d \in {state, node_view, edge_view} :
           d.selected_tool_order # <<>> => IsPermutation(d.selected_tool_order)
    /\ received.step = "planner" /\ node_view.selected_tool_order # <<>> =>
           OrderedByMention(node_view.selected_tool_order,
                            received.ordering.tool_calls)

C9_Witness ==
    /\ received.step = "planner"
    /\ Len(received.ordering.tool_calls) = 2
    /\ received.ordering.tool_calls[1] = received.ordering.tool_calls[2]
    /\ node_view.selected_tool_order = <<2, 0, 1>>

\* C10: current_tool_index is at most the length of selected_tool_order as
\* the run's state holds them, and a run whose cursor has reached that length
\* without an adequate category ends in error.
C10_CursorWithinOrder ==
    /\ state.current_tool_index <= Len(state.selected_tool_order)
    /\ (/\ received.step = "planner"
        /\ ~state.tables_satisfactory
        /\ state.current_tool_index >= Len(state.selected_tool_order)) =>
           node = "error"

NoDuplicates(seq) == \A i, j \in 1 .. Len(seq) : seq[i] = seq[j] => i = j

IsPrefix(a, b) == Len(a) <= Len(b) /\ \A i \in 1 .. Len(a) : a[i] = b[i]

\* C11: tools_attempted never holds a category twice and only grows: every
\* step of a run leaves a value that extends the one before it, and no
\* category is scored for adequacy more than once.
C11_ToolsAttemptedOnlyGrows ==
    [][/\ NoDuplicates(state'.tools_attempted)
       /\ IsPrefix(state.tools_attempted, state'.tools_attempted)
       /\ NoDuplicates(audit'.judged)]_vars

C11_Witness ==
    /\ received.step = "planner"
    /\ state.tools_attempted # <<>>
    /\ audit.judged = state.tools_attempted
    /\ ~state.tables_satisfactory

Scored == received.step = "planner" /\ received.score # None

\* the answer of the scoring call holds no number, or the call raised
Defaulted(r) == r.failed \/ ~\E i \in 1 .. Len(r.text) : IsDigit(r.text[i])

\* C13: after the planner scored a category, the run goes on to generation
\* exactly when the score is at least 0.8; the cursor then stays where it
\* was and otherwise advances by one; a score that defaulted to 0.5 never
\* leads to generation.
C13_AdequateIffScoreAtLeastThreshold ==
    Scored =>
        LET r == received.score[1]
            score == relevance_score(r)
            adequate == score.num * ThresholdDen >= ThresholdNum * score.den
        IN  /\ (node = "sql_generation") <=> adequate
            /\ state.tables_satisfactory <=> adequate
            /\ state.current_tool_index =
                   node_view.current_tool_index + (IF adequate THEN 0 ELSE 1)
            /\ Defaulted(r) => node # "sql_generation"

C13_Witness ==
    /\ Scored
    /\ received.score[1].text = <<"0", ".", "8">>
    /\ node = "sql_generation"
    /\ state.current_tool_index = 0

\* C14: when the category just scored is inadequate and the order holds
\* categories after it, the planner runs again to score the next one.
C14_InadequateLoopsToNextCategory ==
    (/\ Scored
     /\ ~state.tables_satisfactory
     /\ state.current_tool_index < Len(node_view.selected_tool_order)) =>
        node = "planner"

\* C15: a run that returned without any category scoring at least 0.8 has
\* examined every category, returns success = false with a non-empty error
\* and no sql, and made no generation and no evaluation call.
C15_AllInadequateFailsAfterAllExamined ==
    (/\ node = "returned"
     /\ audit.judged # <<>>
     /\ ~state.tables_satisfactory) =>
        /\ Range(audit.judged) = Categories
        /\ ~output[1].success
        /\ TruthyStr(output[1].error)
        /\ "sql" \notin DOMAIN output[1]
        /\ state.final_sql = None
        /\ audit.calls["generation"] = 0
        /\ audit.calls["evaluation"] = 0

\* what may follow the word of a one-word answer
Punctuation == {".", "!", ",", " ", "\n"}

\* the answer is the word no, in any case, possibly followed by punctuation
NegativeAnswer(text) ==
    LET u == Upper(Strip(text))
    IN  /\ Len(u) >= 2
        /\ u[1] = "N" /\ u[2] = "O"
        /\ Len(u) > 2 => u[3] \in Punctuation

\* the ordering call named no known tool and the scope call answered no
ScopeAnsweredNo ==
    /\ audit.scope # None
    /\ ~audit.scope[1].failed
    /\ NegativeAnswer(audit.scope[1].text)

\* C16: when the ordering call names no known tool and the scope answer is
\* negative, the planner is followed by the error node and END with the
\* out-of-scope message: no category is scored, no generation or evaluation
\* call is made, and the result has success = false, that message as its
\* error and an empty tool_order.
C16_NegativeScopeEndsInScopeError ==
    ScopeAnsweredNo =>
        /\ node \in {"error", "END", "returned"}
        /\ state.error_message = Some(OutOfScopeMessage)
        /\ audit.judged = <<>>
        /\ audit.calls["score"] = 0
        /\ audit.calls["generation"] = 0
        /\ audit.calls["evaluation"] = 0
        /\ node = "returned" =>
               /\ ~output[1].success
               /\ "sql" \notin DOMAIN output[1]
               /\ output[1].error = Some(OutOfScopeMessage)
               /\ output[1].tool_order = <<>>

C16_Witness ==
    /\ ScopeAnsweredNo
    /\ audit.scope[1].text = <<" ", "N", "o", ".">>
    /\ node = "returned"

\* C17: when the ordering call names no known tool and the scope answer is
\* not a negative one, the run is not rejected as out of scope: the planner
\* takes the order 0, 1, 2 and scores a category.
C17_NonNegativeScopeFallsBack ==
    (/\ received.step = "planner"
     /\ received.scope # None
     /\ ~received.scope[1].failed
     /\ ~NegativeAnswer(received.scope[1].text)) =>
        /\ state.error_message # Some(OutOfScopeMessage)
        /\ node_view.selected_tool_order = <<0, 1, 2>>
        /\ received.score # None

\* the primary backend was called and raised, and the fallback has a key
PrimaryFailedOver ==
    /\ client.last # None
    /\ client.last[1].primary # None
    /\ client.last[1].primary[1].raised
    /\ TruthyKey(client.instance[1].mistral_api_key)

\* value has the fields an operation returns for message: the text for
\* generate; content and tool_calls (id, function.name, function.arguments
\* of each call, in order) for the other two, and role for chat
HasResultShape(op, value, message) ==
    IF op = "generate"
    THEN DOMAIN value = {"text"} /\ value.text = message.content
    ELSE /\ DOMAIN value =
               {"content", "tool_calls"} \cup (IF op = "chat" THEN {"role"} ELSE {})
         /\ value.content = message.content
         /\ Len(value.tool_calls) = Len(message.tool_calls)
         /\ \A i \in 1 .. Len(value.tool_calls) :
               /\ DOMAIN value.tool_calls[i] = {"id", "function"}
               /\ DOMAIN value.tool_calls[i].function = {"name", "arguments"}
               /\ value.tool_calls[i].id = message.tool_calls[i].id
               /\ value.tool_calls[i].function.name = message.tool_calls[i].function.name
               /\ value.tool_calls[i].function.arguments =
                      message.tool_calls[i].function.arguments

\* C18: for each of generate, generate_with_tools and chat: when the primary
\* backend is called and raises and the fallback has a key, the fallback is
\* called, and if it returns a message the operation returns, without an
\* exception, that message in the shape the operation gives a message of the
\* primary.
C18_FallbackResultHasPrimaryShape ==
    PrimaryFailedOver =>
        LET c == client.last[1]
        IN  /\ c.calls = <<"primary", "fallback">>
            /\ ~c.fallback[1].raised =>
                   /\ ~c.raised
                   /\ c.exception = NoException
                   /\ HasResultShape(c.op, c.value, c.fallback[1].message)
                   /\ DOMAIN c.value = DOMAIN primary_result(c.op, c.fallback[1].message)

C18_Witness ==
    /\ PrimaryFailedOver
    /\ client.last[1].op = "chat"
    /\ ~client.last[1].fallback[1].raised
    /\ Len(client.last[1].fallback[1].message.tool_calls) = 2
    /\ Len(client.last[1].value.tool_calls) = 2

\* C19: when the primary call and the fallback call of one operation both
\* raise, the operation raises the one exhaustion error, and that error
\* carries the exception of the primary and the exception of the fallback.
C19_BothFailRaisesExhaustedWithBothCauses ==
    (/\ PrimaryFailedOver
     /\ client.last[1].fallback # None
     /\ client.last[1].fallback[1].raised) =>
        LET c == client.last[1]
        IN  /\ c.raised
            /\ c.exception.type = "ValueError"
            /\ c.exception.text = ExhaustedText
            /\ {c.primary[1].error, c.fallback[1].error} \subseteq c.exception.chained

\* C20: an operation of a client whose GROQ_API_KEY is unset or empty does
\* not call the primary backend: it calls the fallback alone if that has a
\* key, and otherwise calls no backend and raises the ValueError that says
\* both models failed or are not configured.
C20_UnconfiguredBackendsAreSkipped ==
    (client.last # None /\ ~TruthyKey(client.instance[1].primary_api_key)) =>
        LET c == client.last[1]
            self == client.instance[1]
        IN  /\ "primary" \notin Range(c.calls)
            /\ TruthyKey(self.mistral_api_key) => c.calls = <<"fallback">>
            /\ ~TruthyKey(self.mistral_api_key) =>
                   /\ c.calls = <<>>
                   /\ c.raised
                   /\ c.exception = Exception("ValueError", ExhaustedText)

C20_Witness ==
    /\ client.last # None
    /\ client.instance[1].primary_api_key = Some("")
    /\ client.instance[1].mistral_api_key = None
    /\ client.last[1].calls = <<>>
    /\ client.last[1].exception.type = "ValueError"

\* how many times x occurs in seq
Occurrences(seq, x) == Cardinality({i \in 1 .. Len(seq) : seq[i] = x})

\* C21: one call of generate, generate_with_tools or chat calls the primary
\* backend at most once and the fallback backend at most once, so at most
\* two backend calls in all, and the primary before the fallback.
C21_OneAttemptPerBackend ==
    client.last # None =>
        LET calls == client.last[1].calls
        IN  /\ Occurrences(calls, "primary") <= 1
            /\ Occurrences(calls, "fallback") <= 1
            /\ Range(calls) \subseteq {"primary", "fallback"}
            /\ Len(calls) <= 2

C21_Witness ==
    /\ client.last # None
    /\ client.last[1].op = "chat"
    /\ client.last[1].calls = <<"primary", "fallback">>
    /\ client.last[1].raised

\* C22: with several threads in get_llm_client(): _initialize runs at most
\* once, all callers get the same instance, and the instance a caller gets
\* and uses has all its configuration attributes set.
C22_SingletonSafeUnderConcurrency ==
    /\ callers.initialized <= 1
    /\ \A t, u \in Threads :
           callers.got[t] # 0 /\ callers.got[u] # 0 => callers.got[t] = callers.got[u]
    /\ \A t \in Threads :
           callers.pc[t] \in {"use", "done"} =>
               callers.objects[callers.got[t]].attributes =
                   PrimaryAttributes \cup FallbackAttributes
    /\ \A t \in Threads :
           callers.pc[t] = "done" =>
               callers.observed[t] = PrimaryAttributes \cup FallbackAttributes

\* C24: once a call of llm_client has raised in a run (the ordering, scope,
\* scoring, generation or evaluation call), the run goes to its end without
\* another stage and returns success = false.
C24_RaisedCallIsFatal ==
    audit.raised # {} =>
        /\ node \in {"error", "END", "returned"}
        /\ node = "returned" => ~output[1].success

\* the last step was an evaluation whose response did not parse into a
\* judgment
UnparsedEvaluation ==
    /\ received.step = "evaluation"
    /\ ~received.evaluation.failed
    /\ eval_result(received.evaluation.text).kind \in {"partial", "not_json"}

\* C25: when the evaluation response does not parse into a judgment, the run
\* does not fail: the candidate becomes final_sql, the run is complete and
\* ends, the feedback says the approval was automatic, and the result has
\* success = true with that candidate.
C25_UnparsedEvaluationAutoApproves ==
    UnparsedEvaluation =>
        /\ TruthySql(state.final_sql)
        /\ state.final_sql = state.generated_sql
        /\ state.workflow_complete
        /\ state.error_message = None
        /\ state.evaluation_result.feedback \in
               {"Auto-approved due to evaluation parsing error", "Auto-approved due to error"}
        /\ node \in {"END", "returned"}
        /\ node = "returned" =>
               /\ output[1].success
               /\ output[1].sql = state.generated_sql
               /\ output[1].evaluation.feedback = state.evaluation_result.feedback

C25_Witness ==
    /\ UnparsedEvaluation
    /\ eval_result(received.evaluation.text).kind = "not_json"
    /\ audit.regenerations > 0
    /\ node = "returned"
    /\ output[1].success

\* the last step was an evaluation whose response parsed into a judgment
ParsedEvaluation ==
    /\ received.step = "evaluation"
    /\ ~received.evaluation.failed
    /\ eval_result(received.evaluation.text).kind = "json"

\* C26: after an evaluation whose judgment parses: a pass makes the candidate
\* final_sql and ends the run, with success = true in the result; a fail with
\* the attempt counter below 4 sets needs_regeneration, leaves final_sql
\* unset and is followed by a generation step.
C26_VerdictDecidesNextStep ==
    ParsedEvaluation =>
        /\ eval_result(received.evaluation.text).passed =>
               /\ TruthySql(state.final_sql)
               /\ state.final_sql = state.generated_sql
               /\ state.workflow_complete
               /\ node \in {"END", "returned"}
               /\ node = "returned" => output[1].success
        /\ (~eval_result(received.evaluation.text).passed
             /\ state.sql_generation_attempts < RegenerationCap) =>
               /\ state.needs_regeneration
               /\ state.final_sql = None
               /\ node = "sql_generation"

C26_Witness ==
    /\ ParsedEvaluation
    /\ ~eval_result(received.evaluation.text).passed
    /\ state.sql_generation_attempts = RegenerationCap - 1
    /\ node = "sql_generation"

\* sql_history only grows at its end
SqlHistoryAppendOnly == [][IsPrefix(state.sql_history, state'.sql_history)]_vars

\* C27: sql_history holds one entry for every generation attempt: its length
\* is the attempt counter at every point of a run, the candidate just
\* produced is its last entry, and the result reports as many attempts as
\* sql_history has entries.
C27_HistoryReflectsEveryAttempt ==
    /\ Len(state.sql_history) = state.sql_generation_attempts
    /\ (received.step = "sql_generation" /\ ~received.generation.failed) =>
           /\ state.sql_history # <<>>
           /\ state.sql_history[Len(state.sql_history)] = state.generated_sql[1]
    /\ node = "returned" => output[1].attempts = Len(output[1].sql_history)

\* the keys both dictionaries of run_nlp_to_sql carry
CommonKeys ==
    {"success", "category", "tool_order", "evaluation", "planner_reasoning",
     "attempts", "sql_history", "tool_calls_made"}

\* C28: the result of run_nlp_to_sql has a boolean success, true exactly when
\* final_sql is set; then sql is final_sql; otherwise there is no sql and
\* error is a non-empty message; both shapes carry category, tool_order,
\* evaluation, planner_reasoning, attempts, sql_history and tool_calls_made.
C28_ResultShape ==
    node = "returned" =>
        LET o == output[1]
        IN  /\ CommonKeys \subseteq DOMAIN o
            /\ o.success \in BOOLEAN
            /\ o.success <=> state.final_sql # None
            /\ o.success => "sql" \in DOMAIN o /\ o.sql = state.final_sql
            /\ ~o.success =>
                   /\ "sql" \notin DOMAIN o
                   /\ "error" \in DOMAIN o
                   /\ TruthyStr(o.error)

C28_Witness ==
    /\ node = "returned"
    /\ ~output[1].success
    /\ output[1].error = Some(UnableMessage)
    /\ output[1].attempts = RegenerationCap

\* C29: tool_order of the result names the categories that were scored for
\* adequacy in the run, in the order they were scored.
C29_ToolOrderListsCategoriesTried ==
    node = "returned" =>
        output[1].tool_order =
            [k \in 1 .. Len(audit.judged) |-> CategoryName(audit.judged[k])]

\* a response that was not consumed
Unused == [failed |-> TRUE, text |-> <<>>]

\* the planner responses a trail entry records
ResponsesOf(e) ==
    [ ordering |-> e.ordering,
      scope |-> IF e.scope = None THEN Unused ELSE e.scope[1],
      score |-> IF e.score = None THEN Unused ELSE e.score[1] ]

RECURSIVE Replay(_, _, _)
\* a call running alone from the dictionary s at node n, consuming trail
Replay(s, n, trail) ==
    IF trail = <<>> THEN [state |-> s, node |-> n]
    ELSE LET e == Head(trail)
         IN  CASE e.step = "planner" ->
                    LET ret == planner_node(s, ResponsesOf(e))
                        s2 == ApplyUpdate(StoredInPlace(s, ret.local), ret.update)
                    IN  Replay(s2, should_continue_planner(s2), Tail(trail))
               [] e.step = "sql_generation" ->
                    LET s2 == sql_generation_node(s, e.generation)
                    IN  Replay(s2, should_retry_sql(s2), Tail(trail))
               [] e.step = "evaluation" ->
                    LET s2 == evaluation_node(s, e.evaluation)
                    IN  Replay(s2, should_regenerate_sql(s2).route, Tail(trail))
               [] e.step = "error" -> Replay(error_node(s), "END", Tail(trail))

\* what a call that runs alone holds after consuming trail
Alone(trail) == Replay(initial_state, "planner", trail)

\* C23: two calls of run_nlp_to_sql whose steps interleave work on different
\* state dictionaries, and at every point each call holds what it would hold
\* running alone with the same model responses: the same state, the same
\* next node, and at its return the same result.
C23_RunsDoNotShareState ==
    /\ \A i, j \in Runs :
           (i # j /\ pair.run[i].ref # 0 /\ pair.run[j].ref # 0) =>
               pair.run[i].ref # pair.run[j].ref
    /\ \A i \in Runs :
           pair.run[i].ref # 0 =>
               LET alone == Alone(pair.run[i].trail)
               IN  /\ pair.heap[pair.run[i].ref] = alone.state
                   /\ pair.run[i].node # "returned" => pair.run[i].node = alone.node
                   /\ pair.run[i].node = "returned" =>
                          pair.run[i].output = Some(format_output(alone.state))

C23_Witness ==
    /\ pair.run[1].node = "returned"
    /\ pair.run[1].output[1].success
    /\ Len(pair.run[1].output[1].sql_history) = 2
    /\ pair.run[2].ref = 1
    /\ pair.run[2].node = "evaluation"
    /\ Len(pair.heap[1].sql_history) = 3

\* C30: two calls that consume the same model responses, one verbose and one
\* not, hold the same state and the same next node after every step, and
\* return the same result.
C30_VerboseDoesNotMatter ==
    \A i, j \in Runs :
        (/\ pair.run[i].ref # 0 /\ pair.run[j].ref # 0
         /\ pair.run[i].verbose /\ ~pair.run[j].verbose
         /\ pair.run[i].trail = pair.run[j].trail
         /\ (pair.run[i].node = "returned") = (pair.run[j].node = "returned")) =>
            /\ pair.heap[pair.run[i].ref] = pair.heap[pair.run[j].ref]
            /\ pair.run[i].node = pair.run[j].node
            /\ pair.run[i].output = pair.run[j].output

C30_Witness ==
    /\ pair.run[1].verbose /\ ~pair.run[2].verbose
    /\ pair.run[1].trail = pair.run[2].trail
    /\ Len(pair.run[1].trail) >= 4
    /\ pair.run[1].node = "returned" /\ pair.run[2].node = "returned"
    /\ pair.run[1].output[1].success
    /\ pair.run[1].printed # pair.run[2].printed

\* a token of the markup around a query: a fence, or the tag after it
NotMarkup(tok) == tok \notin {Fence, SqlTag}

\* the top-level statements of a text: its pieces between semicolons that
\* are not blank, markup left out
RECURSIVE Statements(_)
Statements(t) ==
    LET ends == {i \in 1 .. Len(t) : t[i] = Semicolon}
        first == IF ends = {} THEN t ELSE SubSeq(t, 1, Min(ends) - 1)
        rest == IF ends = {} THEN {} ELSE Statements(SubSeq(t, Min(ends) + 1, Len(t)))
    IN  (IF Strip(first) = <<>> THEN {} ELSE {Strip(first)}) \cup rest

\* a statement that begins with SELECT or WITH, in either case
ReadQuery(stmt) == UpperWord(Head(stmt)) \in {"SELECT", "WITH"}

\* with sqlparse, an accepted text holds a statement, and each of its
\* statements is a read query
ParserAcceptsOnlyReadQueries ==
    (probe.fn = "validate_sql_syntax" /\ SQLPARSE_AVAILABLE /\ probe.result) =>
        LET statements == Statements(SelectSeq(probe.sql, NotMarkup))
        IN  statements # {} /\ \A stmt \in statements : ReadQuery(stmt)

\* without sqlparse, the accepted texts are those that begin with SELECT or
\* WITH once trimmed and upper-cased
FallbackAcceptsByPrefix ==
    (probe.fn = "validate_sql_syntax" /\ ~SQLPARSE_AVAILABLE) =>
        LET trimmed == Strip(UpperSql(probe.sql))
        IN  probe.result <=> (trimmed # <<>> /\ Head(trimmed) \in {"SELECT", "WITH"})

\* C31: validate_sql_syntax accepts a text only if it holds a statement and
\* every top-level statement of it is a read query (SELECT or WITH-prefixed),
\* so that blank texts and DROP TABLE are rejected; without sqlparse it
\* accepts exactly the texts that, trimmed and upper-cased, begin with SELECT
\* or WITH.
C31_AcceptsOnlyReadQueries ==
    /\ ParserAcceptsOnlyReadQueries
    /\ FallbackAcceptsByPrefix

\* the candidates the run's state holds
StoredCandidates ==
    Range(state.sql_history)
        \cup (IF IsSet(state.generated_sql) THEN {state.generated_sql[1]} ELSE {})
        \cup (IF IsSet(state.final_sql) THEN {state.final_sql[1]} ELSE {})

\* C34: code-fence markup is stripped before the response is treated as
\* SQL: no candidate stored in generated_sql, sql_history or final_sql holds a
\* fence, and the text that was validated is the text that is stored, so a
\* candidate found valid begins with the keyword of a read query; also for a
\* response that opens a fence and never closes it.
C34_StoredCandidatesCarryNoFence ==
    /\ \A sql \in StoredCandidates : Fence \notin Range(sql)
    /\ (received.step = "sql_generation" /\ state.sql_valid) =>
           /\ state.generated_sql[1] # <<>>
           /\ ReadQuery(state.generated_sql[1])

\* every run ends: it reaches END or an exception leaves it
RunEndsOrRaises == <>(node \in {"END", "raised"})

\* C33: no exception leaves a run: whatever the model calls return or raise,
\* run_nlp_to_sql returns a dictionary, with success = true or with
\* success = false and a message that is not empty.
C33_NoExceptionEscapes ==
    /\ node # "raised"
    /\ node = "returned" =>
           /\ output # None
           /\ ~output[1].success => TruthyStr(output[1].error)

\* the first object substring of a text: from the first opening brace that a
\* closing brace follows, up to the first closing brace after it
FirstObject(text) ==
    LET closes == {j \in 1 .. Len(text) : text[j] = RBrace}
        opens == {i \in 1 .. Len(text) : text[i] = LBrace /\ \E j \in closes : j > i}
    IN  IF opens = {} THEN None
        ELSE Some(SubSeq(text, Min(opens), Min({j \in closes : j > Min(opens)})))

\* the last step was an evaluation whose response holds a well-formed
\* judgment as its first object
LeadingJudgment ==
    /\ received.step = "evaluation"
    /\ ~received.evaluation.failed
    /\ FirstObject(received.evaluation.text) # None
    /\ json_loads(FirstObject(received.evaluation.text)[1]).members # None

\* C35: the judgment is taken from the first object substring of the
\* response: when that object is a well-formed judgment, its verdict and
\* feedback are the evaluation result whatever text follows it, and a fail
\* verdict leaves final_sql unset and asks for a regeneration.
C35_FirstObjectDecides ==
    LeadingJudgment =>
        LET verdict == eval_result(FirstObject(received.evaluation.text)[1])
        IN  /\ state.evaluation_result.passed = verdict.passed
            /\ state.evaluation_result.feedback = verdict.feedback
            /\ ~verdict.passed =>
                   /\ state.needs_regeneration
                   /\ state.final_sql = None

\* C32: at the end of every run the terminal bookkeeping is in place in the
\* run's final state: workflow_complete is true; a run that ended through
\* the error node (Failed, Rejected) has error_message set; a run that ended
\* after an evaluation (Done: pass, automatic approval, forced acceptance)
\* has final_sql set.
C32_TerminalBookkeeping ==
    node \in {"END", "returned"} =>
        /\ state.workflow_complete
        /\ received.step = "error" => TruthyStr(state.error_message)
        /\ received.step = "evaluation" => TruthySql(state.final_sql)

\* C36: a generation step is a regeneration pass (the previous candidate and
\* the feedback are in its prompt) exactly when the step before it was an
\* evaluation whose judgment parsed with a fail verdict; a generation that
\* follows a generation carries no feedback; and needs_regeneration is false
\* whenever a valid candidate goes to evaluation.
C36_RegenerationOnlyAfterFailedEvaluation ==
    [][(node = "sql_generation" /\ audit'.parity # audit.parity) =>
          /\ received'.prompt.regeneration <=> ParsedFail
          /\ received'.prompt.regeneration =>
                 /\ received'.prompt.previous_sql = state.generated_sql
                 /\ received'.prompt.feedback = Some(state.evaluation_result.feedback)
          /\ received.step = "sql_generation" => received'.prompt.feedback = None
          /\ node' = "evaluation" => ~state'.needs_regeneration]_vars

C36_Witness ==
    /\ received.step = "sql_generation"
    /\ received.prompt.regeneration
    /\ audit.syntax_retries > 0
    /\ node = "evaluation"

\* final_sql of the dictionary d, when set, passed validate_sql_syntax and is
\* the last entry of its sql_history
FinalIsLastValidCandidate(d) ==
    IsSet(d.final_sql) =>
        /\ validate_sql_syntax(d.final_sql[1])
        /\ d.sql_history # <<>>
        /\ d.final_sql[1] = d.sql_history[Len(d.sql_history)]

\* C37: whenever final_sql is set, in the run's state or in the dictionary
\* an edge function holds, it is a candidate that passed validate_sql_syntax
\* and the last entry of sql_history; the evaluation node is never entered
\* with sql_valid false; and the sql of a successful result is that
\* candidate.
C37_FinalSqlIsLastValidCandidate ==
    /\ FinalIsLastValidCandidate(state)
    /\ FinalIsLastValidCandidate(edge_view)
    /\ node = "evaluation" => state.sql_valid
    /\ (node = "returned" /\ output[1].success) =>
           /\ output[1].sql = state.final_sql
           /\ validate_sql_syntax(output[1].sql[1])

C37_Witness ==
    /\ IsSet(state.final_sql)
    /\ "generation" \in audit.raised
    /\ audit.regenerations > 0
    /\ node = "returned"
    /\ output[1].success

\* C38: the generation node is entered only after a category was judged
\* adequate (scored at least 0.8) in the same run; from then on
\* selected_tables and selected_category are the tables and the name of that
\* category, and a successful result reports it as category.
C38_GenerationOnlyWithAdequateCategory ==
    /\ (Scored /\ node = "sql_generation") =>
           LET score == relevance_score(received.score[1])
           IN  score.num * ThresholdDen >= ThresholdNum * score.den
    /\ (node = "sql_generation" \/ audit.calls["generation"] > 0) =>
           /\ audit.judged # <<>>
           /\ state.tables_satisfactory
           /\ LET adequate == audit.judged[Len(audit.judged)]
              IN  /\ state.selected_tables = Some(adequate)
                  /\ state.selected_category = Some(CategoryName(adequate))
                  /\ (node = "returned" /\ output[1].success) =>
                         output[1].category = Some(CategoryName(adequate))
    /\ (node = "sql_generation" /\ audit.calls["generation"] = 0) => Scored

C38_Witness ==
    /\ audit.calls["generation"] > 0
    /\ audit.judged = <<2>>
    /\ node = "returned"
    /\ output[1].success
    /\ output[1].category = Some(CategoryName(2))

\* C39: in one call of generate, generate_with_tools or chat the primary
\* backend, when there is a client for it, is called first; the fallback
\* backend is called only when there is no primary client or the primary
\* call raised; a primary call that answered is the only call.
C39_PrimaryBeforeFallback ==
    client.last # None =>
        LET called == client.last[1]
            self == client.instance[1]
        IN  /\ self.primary_client =>
                   called.calls # <<>> /\ called.calls[1] = "primary"
            /\ \A i \in 1 .. Len(called.calls) :
                   called.calls[i] = "primary" => i = 1
            /\ "fallback" \in Range(called.calls) =>
                   \/ ~self.primary_client
                   \/ called.primary # None /\ called.primary[1].raised
            /\ (called.primary # None /\ ~called.primary[1].raised) =>
                   called.calls = <<"primary">>

C39_Witness ==
    /\ client.last # None
    /\ client.last[1].op = "generate"
    /\ client.last[1].calls = <<"primary", "fallback">>
    /\ ~client.last[1].raised

\* the keys of the state other than the two error_node may write
KeptByErrorNode == DOMAIN initial_state \ {"error_message", "workflow_complete"}

\* C40: the error node never overwrites an error_message that is set: it
\* writes the syntax-failure message or the generic one only when
\* error_message is None or empty, and it leaves every other key but
\* workflow_complete (final_sql, sql_history and the routing fields among
\* them) as it was; a run rejected by the scope check returns the planner's
\* scope message as error.
C40_ErrorNodeKeepsMessage ==
    [][/\ (node = "error" /\ audit'.parity # audit.parity) =>
              /\ TruthyStr(state.error_message) =>
                     state'.error_message = state.error_message
              /\ ~TruthyStr(state.error_message) =>
                     state'.error_message =
                         IF TruthyStr(state.sql_generation_error)
                         THEN Some("SQL Generation failed: " \o state.sql_generation_error[1])
                         ELSE Some(GenericError)
              /\ \A k \in KeptByErrorNode : state'[k] = state[k]
       /\ (node' = "returned"
             /\ state'.planner_reasoning = "Out-of-scope query filtered.") =>
              /\ ~output'[1].success
              /\ output'[1].error = Some(OutOfScopeMessage)]_vars

C40_Witness ==
    /\ node = "returned"
    /\ received.step = "error"
    /\ state.planner_reasoning = "Out-of-scope query filtered."
    /\ output[1].error = Some(OutOfScopeMessage)

====
